---- MODULE Spec2Model ----
(***************************************************************************)
(* Twitch overlay server: the EventSub worker (src/twitch_ws.py), the      *)
(* durable store (src/models.py) and the FastAPI application that owns the *)
(* worker task and the overlay websocket clients (src/app.py).             *)
(*                                                                         *)
(* Every coroutine runs on one asyncio event loop: an action is the code   *)
(* a coroutine runs between two suspension points (await), and the value   *)
(* pc names the await a coroutine is suspended in.                         *)
(***************************************************************************)
EXTENDS Integers, Sequences, FiniteSets, TLC

\* ------------------------------------------------------------------ bounds
MaxTasks == 3        \* worker tasks ever created in one run
MaxFrames == 2       \* recognized event frames read in one run
MaxNoise == 1        \* ignored frames (keepalive, unknown, unparseable) read in one run
MaxFaults == 1       \* failures of the outside world in one run of SpecDispatch
MaxFanoutFrames == 1 \* recognized event frames read in one run of Spec
MaxAppFrames == 2    \* recognized event frames read in one run of SpecApp
MaxSessionFaults == 6 \* failures of the outside world in one run of SpecSession
MaxFailCount == 7    \* cap of the count of consecutive failed attempts
MaxIssued == 2       \* token pairs the token endpoint issues in one run
MaxOAuthIssued == 3  \* the same, in a run with an OAuth callback
MaxPushes == 103     \* pushes to the follows bucket (SpecRecent)
MaxFewPushes == 2    \* pushes to each other bucket (SpecRecent)
MaxSaveFrames == 2   \* event frames dispatched in one run of SpecSave

\* ------------------------------------------------------- program constants
BACKOFF_MIN == 1     \* backoff = 1
BACKOFF_MAX == 30    \* min(backoff * 2, 30)
MAX_ITEMS == 100     \* Recent.max_items

TaskIds == 1..MaxTasks
NoTask == 0          \* eventsub_task is None
Observers == {"o1", "o2"}
ObserverOrder == <<"o1", "o2">>   \* the order the clients connect in
Requests == {"r1", "r2"}
Callbacks == {"cb"}
MaxStates == 2       \* state values oauth_start generates in a run
NoState == 0         \* no state parameter in the query
Forged == MaxStates + 1   \* a state value oauth_start never generated
SessionIds == {"abc123", "def456"}

\* ------------------------------------------------------------ JSON values
JNull == [t |-> "null"]
JStr(s) == [t |-> "str", v |-> s]
JInt(n) == [t |-> "int", v |-> n]
JBool(b) == [t |-> "bool", v |-> b]

\* Python truthiness of a JSON value
Truthy(x) ==
  CASE x.t = "null" -> FALSE
    [] x.t = "str" -> x.v # ""
    [] x.t = "int" -> x.v # 0
    [] x.t = "bool" -> x.v
    [] OTHER -> TRUE

\* dict.get(key): None when the key is missing
Get(d, key) == IF key \in DOMAIN d THEN d[key] ELSE JNull
\* dict.get(key, default): the default only when the key is missing
GetDefault(d, key, default) == IF key \in DOMAIN d THEN d[key] ELSE default
\* a or b
Or(a, b) == IF Truthy(a) THEN a ELSE b
\* int(x or 1)
IntOrOne(x) == IF Truthy(x) THEN x.v ELSE 1
\* int(x or 0)
IntOrZero(x) == IF Truthy(x) THEN (IF x.t = "bool" THEN 1 ELSE x.v) ELSE 0

Min(a, b) == IF a < b THEN a ELSE b

\* ---------------------------------------------------------------- models.py
\* del bucket[n:], the oldest items kept
KeepFirst(bucket, n) == SubSeq(bucket, 1, n)
\* del bucket[:-n]: keep the last n items
KeepLast(bucket, n) ==
  IF Len(bucket) > n THEN SubSeq(bucket, Len(bucket) - n + 1, Len(bucket)) ELSE bucket

\* Recent._push
push(bucket, item, max_items) ==
  LET appended == Append(bucket, item)
  IN IF Len(appended) > max_items THEN KeepLast(appended, max_items) ELSE appended

push_follow(recent, item) == [recent EXCEPT !.follows = push(@, item, recent.max_items)]
\* the sub pushed to the follows bucket
push_sub_follows(recent, item) == [recent EXCEPT !.follows = push(@, item, recent.max_items)]
push_sub(recent, item) == [recent EXCEPT !.subs = push(@, item, recent.max_items)]
push_cheer(recent, item) == [recent EXCEPT !.cheers = push(@, item, recent.max_items)]

\* --------------------------------------------------------- inbound frames
JDict(d) == [t |-> "dict", v |-> d]
EmptyDict == JDict(<<>>)
Unparseable == [t |-> "bad"]

\* a dict is falsy when it is empty
TruthyJ(x) == IF x.t = "dict" THEN DOMAIN x.v # {} ELSE Truthy(x)
\* d.get(key) and d.get(key, {}) on a parsed JSON object
GetJ(d, key) == IF key \in DOMAIN d.v THEN d.v[key] ELSE JNull
GetJDict(d, key) == IF key \in DOMAIN d.v THEN d.v[key] ELSE EmptyDict
OrJ(a, b) == IF TruthyJ(a) THEN a ELSE b

\* a notification as the event service sends it: payload.subscription, payload.event
Notification(type, event) ==
  JDict([metadata |-> JDict([message_type |-> JStr("notification")]),
         payload |-> JDict([subscription |-> JDict([type |-> JStr(type)]),
                            event |-> JDict(event)])])
\* the flat shape the worker also accepts: subscription and event at top level
FlatNotification(type, event) ==
  JDict([subscription |-> JDict([type |-> JStr(type)]), event |-> JDict(event)])
Keepalive ==
  JDict([metadata |-> JDict([message_type |-> JStr("session_keepalive")]),
         payload |-> EmptyDict])

FollowFrames ==
  { Notification("channel.follow",
      [user_name |-> JStr("Ann"), user_login |-> JStr("ann"),
       user_id |-> JStr("11"), followed_at |-> JStr("t1")]),
    FlatNotification("channel.follow",
      [user_login |-> JStr("bob"), user_id |-> JStr("12")]) }
SubscribeFrames ==
  { Notification("channel.subscribe",
      [user_name |-> JStr("Cy"), tier |-> JStr("1000")]),
    Notification("channel.subscribe",
      [user_name |-> JStr("Di"), tier |-> JStr("2000"), is_gift |-> JBool(TRUE)]) }
CheerFrames ==
  { Notification("channel.cheer",
      [user_name |-> JStr("Foo"), bits |-> JInt(100), message |-> JStr("hi")]),
    Notification("channel.cheer", [is_anonymous |-> JBool(TRUE), bits |-> JNull]),
    Notification("channel.cheer", [is_anonymous |-> JBool(TRUE), message |-> JStr("yo")]),
    FlatNotification("channel.cheer", [user_name |-> JStr("Gus"), bits |-> JInt(5)]),
    Notification("channel.cheer", [user_name |-> JStr("Ike"), bits |-> JInt(0 - 30)]) }
EventFrames == FollowFrames \cup SubscribeFrames \cup CheerFrames
NoiseFrames ==
  { Unparseable,
    Keepalive,
    Notification("channel.raid", [from_broadcaster_user_name |-> JStr("Hal")]),
    Notification("channel.follow", <<>>),
    JDict([payload |-> JDict([event |-> JDict([user_name |-> JStr("Ann")])])]) }

\* sub = data.get("subscription") or data.get("payload", {}).get("subscription")
FrameSub(data) == OrJ(GetJ(data, "subscription"), GetJ(GetJDict(data, "payload"), "subscription"))
\* event = data.get("event") or data.get("payload", {}).get("event")
FrameEvent(data) == OrJ(GetJ(data, "event"), GetJ(GetJDict(data, "payload"), "event"))
\* etype = sub.get("type")
FrameType(data) == GetJ(FrameSub(data), "type")

\* the frame passes json.loads and `if not sub or not event: continue`
Dispatchable(frame) ==
  /\ frame.t = "dict"
  /\ TruthyJ(FrameSub(frame))
  /\ TruthyJ(FrameEvent(frame))

\* a dispatcher whose last branch takes every other subscription type
KindOfElseFollow(etype) ==
  CASE etype = JStr("channel.subscribe") -> "sub"
    [] etype = JStr("channel.cheer") -> "bits"
    [] OTHER -> "follow"

\* the kind tag the worker publishes for a subscription type, "" when it has no branch
KindOf(etype) ==
  CASE etype = JStr("channel.follow") -> "follow"
    [] etype = JStr("channel.subscribe") -> "sub"
    [] etype = JStr("channel.cheer") -> "bits"
    [] OTHER -> ""

FrameKind(frame) == IF Dispatchable(frame) THEN KindOf(FrameType(frame)) ELSE ""

\* latest.follow = {...}
FollowPayload(event) ==
  [user_name |-> Or(Get(event, "user_name"), Get(event, "user_login")),
   user_id |-> Get(event, "user_id"),
   followed_at |-> Get(event, "followed_at")]
\* latest.sub = {...}
SubPayload(event) ==
  [user_name |-> Get(event, "user_name"),
   tier |-> Get(event, "tier"),
   is_gift |-> GetDefault(event, "is_gift", JBool(FALSE))]
\* latest.bits = {...}
BitsPayload(event) ==
  [user_name |-> GetDefault(event, "user_name", JStr("Anonymous")),
   bits |-> GetDefault(event, "bits", JInt(0)),
   message |-> GetDefault(event, "message", JStr(""))]

Payload(frame) ==
  LET event == FrameEvent(frame).v
      kind == FrameKind(frame)
  IN CASE kind = "follow" -> FollowPayload(event)
       [] kind = "sub" -> SubPayload(event)
       [] kind = "bits" -> BitsPayload(event)

None == [t |-> "none"]

\* a dispatch that writes every payload to the follow slot
DispatchOneSlot(st, frame) ==
  LET kind == FrameKind(frame)
      data == Payload(frame)
  IN CASE kind = "follow" ->
            [st EXCEPT !.latest.follow = data,
                       !.recent = push_follow(@, data)]
       [] kind = "sub" ->
            [st EXCEPT !.latest.follow = data,
                       !.recent = push_sub(@, data)]
       [] kind = "bits" ->
            [st EXCEPT !.latest.follow = data,
                       !.stats.total_bits = @ + IntOrZero(data.bits),
                       !.recent = push_cheer(@, data)]
       [] OTHER -> st

\* the store after the synchronous part of one dispatch (before _store.save())
Dispatch(st, frame) ==
  LET kind == FrameKind(frame)
      data == Payload(frame)
  IN CASE kind = "follow" ->
            [st EXCEPT !.latest.follow = data,
                       !.recent = push_follow(@, data)]
       [] kind = "sub" ->
            [st EXCEPT !.latest.sub = data,
                       !.recent = push_sub(@, data)]
       [] kind = "bits" ->
            [st EXCEPT !.latest.bits = data,
                       !.stats.total_bits = @ + IntOrZero(data.bits),
                       !.recent = push_cheer(@, data)]
       [] OTHER -> st

\* ------------------------------------------------------------------ state
VARIABLES
  wk,             \* connect_eventsub_ws: one record per task ever created
  worker_status,  \* twitch_ws._worker_status
  poll,           \* get_worker_status: the call of /status being served
  token_state,    \* twitch_ws.token_state
  store,          \* app.store, the in-memory Store
  disk,           \* the contents of STORE_FILE and of its temp file
  issued,         \* the token endpoint: the number of the last token pair it issued
  ws_clients,     \* app.ws_clients
  obs,            \* websocket_ws: one record per overlay client
  eventsub_task,  \* app.eventsub_task
  life,           \* lifespan: where the application's lifespan stands
  req,            \* the control requests (/internal/..., /oauth/callback) being served
  pending_oauth_states,  \* app._pending_oauth_states
  minted,         \* history: the number of state values oauth_start has generated
  readLog,        \* history: the event frames the workers read, in order
  pubLog,         \* history: the messages broadcast was called with, in order
  faults,         \* history: failures of the outside world so far
  noise,          \* history: ignored frames read so far
  pushed,         \* history: the items pushed to each Recent bucket (SpecRecent)
  lim             \* the bounds and the starting values of this run

vars == <<wk, worker_status, poll, token_state, store, disk, issued, ws_clients, obs,
          eventsub_task, life, req, pending_oauth_states, minted, readLog, pubLog, faults,
          noise, pushed, lim>>

credVars == <<token_state, store, disk, issued>>
obsVars == <<ws_clients, obs>>
oauthVars == <<pending_oauth_states, minted>>
appVars == <<eventsub_task, life, req, oauthVars>>
histVars == <<readLog, pubLog, noise, pushed>>

NoToken == 0         \* "" / None

\* _worker_status as the module defines it
InitialStatus ==
  [connected |-> FALSE, session_id |-> "", since |-> 0, last_error |-> "",
   backoff_s |-> 0, subs |-> [follow |-> FALSE, subscribe |-> FALSE, cheer |-> FALSE]]

\* ------------------------------------------------------ get_worker_status
\* the keys of the status, in the order get_worker_status reads them (lines 26-31)
STATUS_KEYS == <<"connected", "session_id", "since", "last_error", "backoff_s", "subs">>

\* no call of /status is being served. Of the call being served: the keys read so far,
\* the dict being built, and every value the live status may have had since the call
\* began
NoPoll == [pc |-> 0, snap |-> InitialStatus, lives |-> {}]

\* the dict being built after its next key was read from the live status;
\* dict(_worker_status["subs"]) makes a new map of the same entries
ReadKey(snap, key, st) ==
  CASE key = "connected" -> [snap EXCEPT !.connected = st.connected]
    [] key = "session_id" -> [snap EXCEPT !.session_id = st.session_id]
    [] key = "since" -> [snap EXCEPT !.since = st.since]
    [] key = "last_error" -> [snap EXCEPT !.last_error = st.last_error]
    [] key = "backoff_s" -> [snap EXCEPT !.backoff_s = st.backoff_s]
    [] key = "subs" -> [snap EXCEPT !.subs = st.subs]

\* the worker writes the keys of the status one assignment at a time (lines 172-173,
\* 201-222, 275-277): between the status before and the status after a step of the
\* worker, the live status has some keys already written and the others not yet
Mixes(st, st2) ==
  { [connected |-> IF "connected" \in S THEN st2.connected ELSE st.connected,
     session_id |-> IF "session_id" \in S THEN st2.session_id ELSE st.session_id,
     since |-> IF "since" \in S THEN st2.since ELSE st.since,
     last_error |-> IF "last_error" \in S THEN st2.last_error ELSE st.last_error,
     backoff_s |-> IF "backoff_s" \in S THEN st2.backoff_s ELSE st.backoff_s,
     subs |-> IF "subs" \in S THEN st2.subs ELSE st.subs] :
    S \in SUBSET { STATUS_KEYS[i] : i \in 1..Len(STATUS_KEYS) } }

\* the values the live status may have had during the call, after the worker went
\* from status st to status st2
Tracked(p, st, st2) ==
  IF p.pc > 0 /\ st2 # st THEN [p EXCEPT !.lives = @ \cup Mixes(st, st2)] ELSE p

\* TokenState()
EmptyTokenState == [access_token |-> NoToken, refresh_token |-> NoToken]

NoMessage == [op |-> "", kind |-> "", data |-> None, n |-> 0]

\* no subscribe call made yet. Of the last subscribe call: the requests posted, the
\* calls of refresh_user_token_if_needed, the first answer, the tokens of the first and
\* of the last request, how the call ended, and while the call is open the JSON body
\* of its requests
NoCall ==
  [posts |-> 0, refreshes |-> 0, first |-> "", token0 |-> NoToken, token |-> NoToken,
   out |-> "none", body |-> <<>>]

\* a task that does not exist yet
NoWorker ==
  [pc |-> "none", backoff |-> 0, conn |-> 0, sub |-> 0, cancel |-> FALSE,
   fails |-> 0, todo |-> <<>>, stale |-> <<>>, msg |-> NoMessage, call |-> NoCall,
   at |-> "", turn |-> FALSE, sent |-> NoToken, asked |-> ""]

\* asyncio.create_task(connect_eventsub_ws(latest)): created, not yet run
NewWorker == [NoWorker EXCEPT !.pc = "start"]

SUB_TYPES == <<"follow", "subscribe", "cheer">>

\* ------------------------------------------------- Store.save, Store.load
\* a file that does not exist
Absent == [exists |-> FALSE, chunks |-> <<>>]
\* a file that holds these chunks
File(chunks) == [exists |-> TRUE, chunks |-> chunks]

\* self.model_dump_json(indent=2): the four fields of Store, in order, one chunk each
Dumped(st) ==
  <<[k |-> "settings", v |-> st.settings], [k |-> "latest", v |-> st.latest],
    [k |-> "stats", v |-> st.stats], [k |-> "recent", v |-> st.recent]>>

StoreKeys == <<"settings", "latest", "stats", "recent">>

\* json.loads(STORE_FILE.read_text()) and cls(**...) succeed on this file
Parses(file) ==
  /\ file.exists
  /\ Len(file.chunks) = Len(StoreKeys)
  /\ \A i \in DOMAIN file.chunks : file.chunks[i].k = StoreKeys[i]

\* Store.load, lines 98-106, `fresh` being Store()
Load(file, fresh) ==
  IF Parses(file)
    THEN [settings |-> file.chunks[1].v, latest |-> file.chunks[2].v,
          stats |-> file.chunks[3].v, recent |-> file.chunks[4].v]
    ELSE fresh

\* write_text on the target itself: the target is emptied
OpenedInPlace(d) == [target |-> File(<<>>), tmp |-> File(<<>>)]

\* line 110, tmp.write_text opens the temp file: it exists and is empty
Opened(d) == [d EXCEPT !.tmp = File(<<>>)]

\* line 110, tmp.write_text writes on: the next chunk of `data` is in the temp file
Written(d, data) == [d EXCEPT !.tmp.chunks = Append(@, data[Len(@) + 1])]

\* line 111, tmp.replace(STORE_FILE): the temp file takes the place of the target
Replaced(d) == [target |-> d.tmp, tmp |-> Absent]

\* a save that leaves the recent lists out of the file
SavedNoRecent(st) ==
  [target |-> File(Dumped([st EXCEPT !.recent.follows = <<>>, !.recent.subs = <<>>,
                                     !.recent.cheers = <<>>])),
   tmp |-> Absent]

\* Store.save() from its first line to its last: the two files afterwards
Saved(st) == [target |-> File(Dumped(st)), tmp |-> Absent]

\* ------------------------------------------ refresh_user_token_if_needed
\* the refresh is a no-op: `if not token_state.refresh_token: return`
RefreshSkipped(ts) == ts.refresh_token = NoToken

\* lines 73-76: the token state after a successful answer of the token endpoint
RefreshedTokens(ts, access, refresh) ==
  [access_token |-> access,
   refresh_token |-> IF refresh # NoToken THEN refresh ELSE ts.refresh_token]

\* a refresh that leaves the settings as they were
StaleSettings(settings, ts) == settings

\* lines 78-79: the settings after a successful refresh
RefreshedSettings(settings, ts) ==
  [settings EXCEPT !.user_access_token = ts.access_token,
                   !.user_refresh_token = ts.refresh_token]

\* the answer of the token endpoint arrives: new pair number `issued + 1`,
\* with or without a new refresh token
RefreshAnswer(withRefresh) ==
  /\ issued < lim.issues
  /\ issued' = issued + 1
  /\ token_state' = RefreshedTokens(token_state, issued + 1,
                                    IF withRefresh THEN issued + 1 ELSE NoToken)
  /\ store' = [store EXCEPT !.settings = RefreshedSettings(@, token_state')]
  /\ disk' = Saved(store')

\* ------------------------------------------------- connect_eventsub_ws
Result(r, st) == [r |-> r, st |-> st]

\* the consecutive failures counted so far, capped
Bump(n) == Min(n + 1, MaxFailCount)

\* a way out of the session that leaves the connection open
LeftOpen(r) == r

\* line 183: the exit of `async with websockets.connect(...) as ws`, by an exception,
\* by `continue` or by the end of the block, closes the connection the block opened;
\* `conn` counts the open connections of the worker
Closed(r) == [r EXCEPT !.conn = IF @ > 0 THEN @ - 1 ELSE 0]

\* refresh_user_token_if_needed, lines 60-70: the request is posted with the refresh
\* token the token state holds now, and awaited
RefreshPost(r, pc) == [r EXCEPT !.pc = pc, !.sent = token_state.refresh_token]

\* an error that ends the worker
HandlerFatal(r, st, err) ==
  Result([r EXCEPT !.pc = "done"], [st EXCEPT !.connected = FALSE, !.last_error = err])

\* a handler that sleeps without the refresh
HandlerNoRefresh(r, st, err) ==
  Result([Closed(r) EXCEPT !.sub = 0, !.fails = Bump(@), !.pc = "sleep"],
         [st EXCEPT !.connected = FALSE, !.last_error = err, !.backoff_s = r.backoff])

\* lines 273-283: `except Exception as e`, up to the await it suspends in
Handler(r, st, err) ==
  LET st2 == [st EXCEPT !.connected = FALSE, !.last_error = err, !.backoff_s = r.backoff]
      r2 == [Closed(r) EXCEPT !.sub = 0, !.fails = Bump(@)]
  IN IF RefreshSkipped(token_state)
       THEN Result([r2 EXCEPT !.pc = "sleep"], st2)
       ELSE Result(RefreshPost(r2, "err_refresh"), st2)

\* line 183: websockets.connect(uri, ...)
Connect(r, st) == Result([r EXCEPT !.pc = "connecting"], st)

\* the connection opened without the moderator id
ConnectAnyway(r, st, settings) == Result([r EXCEPT !.pc = "connecting"], st)

\* line 179: ensure_moderator_user_id, up to its lookup
AfterBroadcaster(r, st, settings) ==
  IF settings.moderator_user_id # ""
    THEN Connect(r, st)
    ELSE Result([r EXCEPT !.pc = "lookup_m"], st)

\* line 178: ensure_broadcaster_id, up to its lookup
AfterToken(r, st, settings) ==
  IF settings.broadcaster_id # ""
    THEN AfterBroadcaster(r, st, settings)
    ELSE IF settings.broadcaster_login = ""
      THEN Handler(r, st, "Set the 'Broadcaster Login' in /admin")
      ELSE Result([r EXCEPT !.pc = "lookup_b", !.asked = settings.broadcaster_login], st)

\* the top of the loop without the write of backoff_s
LoopTopQuiet(r, st) ==
  LET st1 == [st EXCEPT !.connected = FALSE]
      r1 == [r EXCEPT !.turn = ~@]
  IN IF token_state.access_token = NoToken
       THEN Handler(r1, st1, "Please connect your Twitch account in /admin (OAuth)")
       ELSE AfterToken(r1, st1, store.settings)

\* lines 172-176: the top of `while True`; `turn` tells one turn of the loop from
\* the next
LoopTop(r, st) ==
  LET st1 == [st EXCEPT !.backoff_s = r.backoff, !.connected = FALSE]
      r1 == [r EXCEPT !.turn = ~@]
  IN IF token_state.access_token = NoToken
       THEN Handler(r1, st1, "Please connect your Twitch account in /admin (OAuth)")
       ELSE AfterToken(r1, st1, store.settings)

\* lines 218-224: all three subscriptions made, the frame loop starts
\* entering Streaming with the status of the last failure left in place
EnterStreamingAsIs(r, st) ==
  Result([r EXCEPT !.backoff = BACKOFF_MIN, !.pc = "stream", !.sub = 0, !.fails = 0],
         [st EXCEPT !.connected = TRUE, !.since = 1])

EnterStreaming(r, st) ==
  Result([r EXCEPT !.backoff = BACKOFF_MIN, !.pc = "stream", !.sub = 0, !.fails = 0],
         [st EXCEPT !.backoff_s = BACKOFF_MIN, !.connected = TRUE, !.since = 1,
                    !.last_error = ""])

\* the subscription type of the n-th subscribe call, lines 204, 208, 212
SUB_CALLS == <<"channel.follow", "channel.subscribe", "channel.cheer">>

SUB_VERSIONS ==
  [t \in {"channel.follow", "channel.subscribe", "channel.cheer"} |->
     IF t = "channel.follow" THEN "2" ELSE "1"]

\* SUB_VERSIONS.get(sub_type, "1")
VersionOf(sub_type) == IF sub_type \in DOMAIN SUB_VERSIONS THEN SUB_VERSIONS[sub_type] ELSE "1"

\* a follow request whose condition holds the broadcaster id only
ConditionBroadcaster(sub_type, broadcaster_id, moderator_id) ==
  [broadcaster_user_id |-> broadcaster_id]

\* the condition argument of the subscribe calls, lines 205, 209, 213
ConditionFor(sub_type, broadcaster_id, moderator_id) ==
  IF sub_type = "channel.follow"
    THEN [broadcaster_user_id |-> broadcaster_id, moderator_user_id |-> moderator_id]
    ELSE [broadcaster_user_id |-> broadcaster_id]

\* subscribe, lines 125-130: the payload
PayloadOf(sub_type, session_id, condition) ==
  [type |-> sub_type, version |-> VersionOf(sub_type), condition |-> condition,
   transport |-> [method |-> "websocket", session_id |-> session_id]]

\* subscribe, lines 131-136: the call posts its first request with the token it was
\* given. The ids of the condition are those ensure_broadcaster_id and
\* ensure_moderator_user_id returned in this attempt; once set, the settings keep them
BeginSubscribe(r, n, session_id) ==
  [r EXCEPT !.pc = "sub_post", !.sub = n,
            !.call = [posts |-> 1, refreshes |-> 0, first |-> "",
                      token0 |-> token_state.access_token,
                      token |-> token_state.access_token, out |-> "open",
                      body |-> PayloadOf(SUB_CALLS[n], session_id,
                                         ConditionFor(SUB_CALLS[n],
                                                      store.settings.broadcaster_id,
                                                      store.settings.moderator_user_id))]]

\* the second request posted with the token of the first
RetryPostSameToken(r, ts) ==
  [r EXCEPT !.pc = "sub_retry", !.call.posts = @ + 1, !.call.token = r.call.token0]

\* subscribe, lines 139-143: the second request, with the token the token state holds
RetryPost(r, ts) ==
  [r EXCEPT !.pc = "sub_retry", !.call.posts = @ + 1, !.call.token = ts.access_token]

\* the frame loop entered after the first subscription
SubscribeOkOnce(r, st) ==
  Result([r EXCEPT !.call.out = "ok", !.call.body = <<>>, !.pc = "stream", !.sub = 0],
         [st EXCEPT !.subs[SUB_TYPES[r.sub]] = TRUE])

\* lines 204-214: one subscribe call returned without raising
SubscribeOk(r, st) ==
  LET st1 == [st EXCEPT !.subs[SUB_TYPES[r.sub]] = TRUE]
      r1 == [r EXCEPT !.call.out = "ok", !.call.body = <<>>]
  IN IF r.sub < Len(SUB_TYPES)
       THEN Result(BeginSubscribe(r1, r.sub + 1, r.call.body.transport.session_id), st1)
       ELSE EnterStreaming(r1, st1)

\* a failed request that is followed by the request for the next kind
SubscribeGoesOn(r, st, err) ==
  IF r.sub < Len(SUB_TYPES)
    THEN Result(BeginSubscribe([r EXCEPT !.call.out = "failed"], r.sub + 1,
                               r.call.body.transport.session_id), st)
    ELSE Result([r EXCEPT !.call.out = "failed", !.pc = "stream", !.sub = 0], st)

\* a subscribe call raised: line 149, or line 72 inside its refresh
SubscribeFailed(r, st, err) ==
  Handler([r EXCEPT !.call.out = "failed", !.call.body = <<>>], st, err)

\* the doubling without its cap
NextBackoffUncapped(backoff) == backoff * 2

\* line 284
NextBackoff(backoff) == Min(backoff * 2, BACKOFF_MAX)

\* a worker that goes on although its cancellation is pending
RunnableAnyway(w, pc) == wk[w].pc = pc

\* the await the task is suspended in returns or raises an Exception: only when no
\* cancellation is pending, as CancelledError is thrown into it instead
Runnable(w, pc) == wk[w].pc = pc /\ ~wk[w].cancel

Apply(w, res) ==
  /\ wk' = [wk EXCEPT ![w] = res.r]
  /\ worker_status' = res.st
  /\ poll' = Tracked(poll, worker_status, res.st)

Fault ==
  /\ faults < lim.faults
  /\ faults' = faults + 1

\* the task runs for the first time: line 167 to the first await
WorkerStart(w) ==
  /\ Runnable(w, "start")
  /\ Apply(w, LoopTop([wk[w] EXCEPT !.backoff = BACKOFF_MIN], worker_status))
  /\ UNCHANGED <<credVars, obsVars, appVars, histVars, faults, lim>>

\* the id of the user with this login, as GET /users?login= answers it
IdOf(login) == IF login = "chan" THEN "b1" ELSE "b2"

\* ensure_broadcaster_id: the answer of GET /users?login=, requested at line 91 with
\* the login the settings held then
LookupBroadcaster(w) ==
  /\ Runnable(w, "lookup_b")
  /\ \/ /\ store' = [store EXCEPT !.settings.broadcaster_id = IdOf(wk[w].asked)]
        /\ disk' = Saved(store')
        /\ Apply(w, AfterBroadcaster([wk[w] EXCEPT !.asked = ""], worker_status,
                                     store'.settings))
        /\ UNCHANGED faults
     \/ /\ Fault
        /\ \E err \in {"lookup failed", "Broadcaster not found for login"} :
             Apply(w, Handler([wk[w] EXCEPT !.asked = ""], worker_status, err))
        /\ UNCHANGED <<store, disk>>
  /\ UNCHANGED <<token_state, issued, obsVars, appVars, histVars, lim>>

\* ensure_moderator_user_id: the answer of GET /users
LookupModerator(w) ==
  /\ Runnable(w, "lookup_m")
  /\ \/ /\ store' = [store EXCEPT !.settings.moderator_user_id = "m1"]
        /\ disk' = Saved(store')
        /\ Apply(w, Connect(wk[w], worker_status))
        /\ UNCHANGED faults
     \/ /\ Fault
        /\ \E err \in {"lookup failed", "Failed to resolve user"} :
             Apply(w, Handler(wk[w], worker_status, err))
        /\ UNCHANGED <<store, disk>>
  /\ UNCHANGED <<token_state, issued, obsVars, appVars, histVars, lim>>

\* websockets.connect returns or raises
Connected(w) ==
  /\ Runnable(w, "connecting")
  /\ \/ /\ Apply(w, Result([wk[w] EXCEPT !.conn = @ + 1, !.pc = "welcome"], worker_status))
        /\ UNCHANGED faults
     \/ /\ Fault
        /\ Apply(w, Handler(wk[w], worker_status, "connect failed"))
  /\ UNCHANGED <<credVars, obsVars, appVars, histVars, lim>>

\* lines 184-204: the first frame
\* a welcome that records the session id and leaves the flags as they are
WelcomedKeepsFlags(st, sid) == [st EXCEPT !.session_id = sid]

\* the status after a welcome with session id sid
Welcomed(st, sid) ==
  [st EXCEPT !.session_id = sid,
             !.subs = [follow |-> FALSE, subscribe |-> FALSE, cheer |-> FALSE]]

Welcome(w) ==
  /\ Runnable(w, "welcome")
  /\ \/ \E sid \in SessionIds :
          /\ Apply(w, Result(BeginSubscribe(wk[w], 1, sid), Welcomed(worker_status, sid)))
          /\ UNCHANGED faults
     \/ /\ Fault
        /\ Apply(w, Result([wk[w] EXCEPT !.pc = "welcome_pause"], worker_status))
     \/ /\ Fault
        /\ \E err \in {"connection closed", "welcome is not JSON"} :
             Apply(w, Handler(wk[w], worker_status, err))
  /\ UNCHANGED <<credVars, obsVars, appVars, histVars, lim>>

\* lines 193-194: asyncio.sleep(3) is over, `continue` leaves the connection
\* a pause that ends in the failure handler
PauseFailed(r, st) == Handler(r, st, "no session in welcome")

\* asyncio.sleep(3) returned: `continue` leaves the async with block and starts the
\* next iteration of the loop
PauseOver(r, st) == LoopTop(Closed(r), st)

WelcomePause(w) ==
  /\ Runnable(w, "welcome_pause")
  /\ Apply(w, PauseOver(wk[w], worker_status))
  /\ UNCHANGED <<credVars, obsVars, appVars, histVars, faults, lim>>

\* subscribe, lines 132-149: the answer to the first POST
SubscribePost(w) ==
  /\ Runnable(w, "sub_post")
  /\ \/ /\ Apply(w, SubscribeOk([wk[w] EXCEPT !.call.first = "2xx"], worker_status))
        /\ UNCHANGED faults
     \/ /\ Fault   \* 401
        /\ LET r == [wk[w] EXCEPT !.call.first = "401", !.call.refreshes = @ + 1]
           IN IF RefreshSkipped(token_state)
                THEN Apply(w, Result(RetryPost(r, token_state), worker_status))
                ELSE Apply(w, Result(RefreshPost(r, "sub_refresh"), worker_status))
     \/ /\ Fault   \* any other status >= 400
        /\ Apply(w, SubscribeFailed([wk[w] EXCEPT !.call.first = "4xx"], worker_status,
                                   "subscribe failed"))
  /\ UNCHANGED <<credVars, obsVars, appVars, histVars, lim>>

\* subscribe, line 138: the answer of the token endpoint
SubscribeRefresh(w) ==
  /\ Runnable(w, "sub_refresh")
  /\ \/ /\ \E withRefresh \in BOOLEAN : RefreshAnswer(withRefresh)
        /\ Apply(w, Result(RetryPost([wk[w] EXCEPT !.sent = NoToken], token_state'),
                             worker_status))
        /\ UNCHANGED faults
     \/ /\ Fault
        /\ Apply(w, SubscribeFailed([wk[w] EXCEPT !.sent = NoToken], worker_status,
                                   "refresh failed"))
        /\ UNCHANGED credVars
  /\ UNCHANGED <<obsVars, appVars, histVars, lim>>

\* subscribe, lines 139-149: the answer to the second POST
SubscribeRetry(w) ==
  /\ Runnable(w, "sub_retry")
  /\ \/ /\ Apply(w, SubscribeOk(wk[w], worker_status))
        /\ UNCHANGED faults
     \/ /\ Fault   \* 401 again, or any other status >= 400
        /\ Apply(w, SubscribeFailed(wk[w], worker_status, "subscribe failed"))
  /\ UNCHANGED <<credVars, obsVars, appVars, histVars, lim>>

\* lines 278-283: the handler's refresh answered, the handler sleeps
ErrRefresh(w) ==
  /\ Runnable(w, "err_refresh")
  /\ \/ \E withRefresh \in BOOLEAN : RefreshAnswer(withRefresh)
     \/ UNCHANGED credVars
  /\ Apply(w, Result([wk[w] EXCEPT !.pc = "sleep", !.sent = NoToken], worker_status))
  /\ UNCHANGED <<obsVars, appVars, histVars, faults, lim>>

\* lines 283-284 and the next turn of the loop
Sleep(w) ==
  /\ Runnable(w, "sleep")
  /\ Apply(w, LoopTop([wk[w] EXCEPT !.backoff = NextBackoff(@)], worker_status))
  /\ UNCHANGED <<credVars, obsVars, appVars, histVars, faults, lim>>

Suspended(r) == r.pc \notin {"none", "start", "done"}

\* lines 285-288: CancelledError is thrown into the await the task is suspended in
Cancelled(w) ==
  /\ wk[w].cancel
  /\ wk[w].pc \notin {"none", "done"}
  /\ wk' = [wk EXCEPT ![w] = [Closed(@) EXCEPT !.pc = "done", !.cancel = FALSE, !.sent = NoToken,
                                               !.asked = "", !.call.body = <<>>,
                                               !.todo = <<>>, !.stale = <<>>,
                                               !.at = wk[w].pc]]
  /\ worker_status' = IF Suspended(wk[w])
                        THEN [worker_status EXCEPT !.connected = FALSE]
                        ELSE worker_status
  /\ poll' = Tracked(poll, worker_status, worker_status')
  /\ UNCHANGED <<credVars, obsVars, appVars, histVars, faults, lim>>

\* ------------------------------------------------------------ GET /status
\* status_json is a plain `def`, so it is served in a thread of the thread pool while
\* the worker runs in the event loop's thread: the thread reads the next key of
\* _worker_status (lines 26-31), and the worker may run between two reads
PollRead ==
  /\ poll.pc < Len(STATUS_KEYS)
  /\ poll' = [pc |-> poll.pc + 1,
              snap |-> ReadKey(poll.snap, STATUS_KEYS[poll.pc + 1], worker_status),
              lives |-> IF poll.pc = 0 THEN {worker_status} ELSE poll.lives]
  /\ UNCHANGED <<wk, worker_status, credVars, obsVars, appVars, histVars, faults, lim>>

\* the dict is complete and returned (line 100), the response is sent
PollReturn ==
  /\ poll.pc = Len(STATUS_KEYS)
  /\ poll' = NoPoll
  /\ UNCHANGED <<wk, worker_status, credVars, obsVars, appVars, histVars, faults, lim>>

\* ---------------------------------------------- dispatch and app.broadcast
\* list(ws_clients): the set in the order the iteration visits it
Orders(S) == { q \in [1..Cardinality(S) -> S] : \A o \in S : \E i \in DOMAIN q : q[i] = o }

Message(op, kind, data, n) == [op |-> op, kind |-> kind, data |-> data, n |-> n]

\* lines 245, 257, 270: {"op": "latest_update", "kind": ..., "data": ...}
UpdateFor(kind, data, n) == Message("latest_update", kind, data, n)
\* an alert that carries the follow tag whatever the kind
AlertAsFollow(kind, data, n) == Message("alert", "follow", data, n)
\* lines 246, 258, 271: {"op": "alert", "kind": ..., "data": ...}
AlertFor(kind, data, n) == Message("alert", kind, data, n)

Elements(q) == { q[i] : i \in DOMAIN q }

\* the pass is over and the set is cleared when a send raised
PrunedAll(clients, stale) == IF stale = <<>> THEN clients ELSE {}
\* lines 85-86: the pass is over, the stale clients are discarded
Pruned(clients, stale) == clients \ Elements(stale)

\* whether send_text on this client's socket returns (it raises on a closed one)
Delivers(o) == obs[o].open

\* a pass that leaves out the first client of the set
SkippingPass(r, msg, order) ==
  IF Len(order) <= 1
    THEN [r EXCEPT !.todo = <<>>, !.stale = <<>>, !.msg = NoMessage, !.pc = "stream"]
    ELSE [r EXCEPT !.todo = Tail(order), !.stale = <<>>, !.msg = msg, !.pc = "bcast"]

\* the worker calls _broadcast(msg) with `clients` attached: the first send_text is
\* awaited, or with nobody attached the call returns at once
StartPass(r, msg, order) ==
  IF order = <<>>
    THEN [r EXCEPT !.todo = <<>>, !.stale = <<>>, !.msg = NoMessage, !.pc = "stream"]
    ELSE [r EXCEPT !.todo = order, !.stale = <<>>, !.msg = msg, !.pc = "bcast"]

\* lines 224-271: one frame of `async for message in ws`
ReadFrame(w, frame) ==
  /\ Runnable(w, "stream")
  /\ IF frame \in EventFrames
       THEN /\ Len(readLog) < lim.frames
            /\ readLog' = Append(readLog, frame)
            /\ UNCHANGED noise
       ELSE /\ noise < lim.noise
            /\ noise' = noise + 1
            /\ UNCHANGED readLog
  /\ IF FrameKind(frame) = ""
       THEN UNCHANGED <<wk, worker_status, poll, store, disk, pubLog>>
       ELSE /\ store' = Dispatch(store, frame)
            /\ disk' = Saved(store')
            /\ LET kind == FrameKind(frame)
                   data == Payload(frame)
                   n == Len(pubLog)
                   update == UpdateFor(kind, data, n + 1)
                   alert == AlertFor(kind, data, n + 2)
               IN IF ws_clients = {}
                    THEN /\ pubLog' = pubLog \o <<update, alert>>
                         /\ Apply(w, Result(StartPass(wk[w], alert, <<>>), worker_status))
                    ELSE /\ pubLog' = Append(pubLog, update)
                         /\ \E order \in Orders(ws_clients) :
                              Apply(w, Result(StartPass(wk[w], update, order), worker_status))
  /\ UNCHANGED <<token_state, issued, obsVars, appVars, faults, pushed, lim>>

\* the event service closes the connection: `async for` ends (an orderly close)
\* or raises (any other close)
StreamClosed(w) ==
  /\ Runnable(w, "stream")
  /\ Fault
  /\ \/ Apply(w, LoopTop(Closed(wk[w]), worker_status))
     \/ Apply(w, Handler(wk[w], worker_status, "connection closed"))
  /\ UNCHANGED <<credVars, obsVars, appVars, histVars, lim>>

\* the stale list after the send to client o returned or raised (lines 81-84)
Staled(stale, o) == IF Delivers(o) THEN stale ELSE Append(stale, o)

\* the client's inbox after a send_text: the frame reaches an open socket
Received(inbox, o, msg) == IF Delivers(o) THEN Append(inbox, msg) ELSE inbox

\* app.broadcast, lines 80-86: the awaited send_text is over
BroadcastSend(w) ==
  /\ Runnable(w, "bcast")
  /\ LET r == wk[w]
         o == Head(r.todo)
         rest == Tail(r.todo)
         stale == Staled(r.stale, o)
     IN /\ obs' = [obs EXCEPT ![o].inbox = Received(@, o, r.msg)]
        /\ IF rest # <<>>
             THEN /\ wk' = [wk EXCEPT ![w] = [r EXCEPT !.todo = rest, !.stale = stale]]
                  /\ UNCHANGED <<ws_clients, pubLog>>
             ELSE /\ ws_clients' = Pruned(ws_clients, stale)
                  /\ IF r.msg.op = "latest_update"
                       THEN LET alert == AlertFor(r.msg.kind, r.msg.data, Len(pubLog) + 1)
                            IN /\ pubLog' = Append(pubLog, alert)
                               /\ \E order \in Orders(ws_clients') :
                                    wk' = [wk EXCEPT ![w] = StartPass(r, alert, order)]
                       ELSE /\ wk' = [wk EXCEPT ![w] = StartPass(r, r.msg, <<>>)]
                            /\ UNCHANGED pubLog
  /\ UNCHANGED <<worker_status, poll, credVars, appVars, readLog, noise, pushed, faults, lim>>

\* --------------------------------------------------------- websocket_ws
NoObserver ==
  [pc |-> "idle", open |-> FALSE, boot |-> NoMessage, inbox |-> <<>>, joined |-> 0]

\* an overlay page opens /ws
ClientConnect(o) ==
  /\ life.pc = "running"
  /\ obs[o].pc = "idle"
  /\ Cardinality({ x \in Observers : obs[x].pc # "idle" }) < lim.clients
  /\ o = ObserverOrder[Cardinality({ x \in Observers : obs[x].pc # "idle" }) + 1]
  /\ obs' = [obs EXCEPT ![o] = [@ EXCEPT !.pc = "accept", !.open = TRUE]]
  /\ UNCHANGED <<wk, worker_status, poll, credVars, ws_clients, appVars, histVars, faults, lim>>

\* the page goes away
ClientDisconnect(o) ==
  /\ obs[o].open
  /\ obs' = [obs EXCEPT ![o].open = FALSE]
  /\ UNCHANGED <<wk, worker_status, poll, credVars, ws_clients, appVars, histVars, faults, lim>>

\* a bootstrap message with no snapshot in it
BootstrapBlank(latest) ==
  Message("bootstrap", "", [follow |-> None, sub |-> None, bits |-> None], 0)

\* line 106: {"op": "bootstrap", "latest": store.latest.model_dump()}
Bootstrap(latest) == Message("bootstrap", "", latest, 0)

\* lines 104-106: accept() returned; the client is added, the bootstrap send awaited
Accepted(o) ==
  /\ obs[o].pc = "accept"
  /\ IF obs[o].open
       THEN /\ ws_clients' = ws_clients \cup {o}
            /\ obs' = [obs EXCEPT ![o] = [@ EXCEPT !.pc = "bootstrap",
                                                   !.boot = Bootstrap(store.latest),
                                                   !.joined = Len(pubLog)]]
       ELSE /\ obs' = [obs EXCEPT ![o].pc = "closed"]
            /\ UNCHANGED ws_clients
  /\ UNCHANGED <<wk, worker_status, poll, credVars, appVars, histVars, faults, lim>>

\* line 106: the bootstrap send is over; a raise ends the handler, the client stays in
\* the set
Bootstrapped(o) ==
  /\ obs[o].pc = "bootstrap"
  /\ obs' = [obs EXCEPT ![o] = [@ EXCEPT !.pc = IF Delivers(o) THEN "receive" ELSE "closed",
                                         !.inbox = Received(@, o, obs[o].boot)]]
  /\ UNCHANGED <<wk, worker_status, poll, credVars, ws_clients, appVars, histVars, faults, lim>>

\* lines 110-111: receive_text raised WebSocketDisconnect
Detached(o) ==
  /\ obs[o].pc = "receive"
  /\ ~obs[o].open
  /\ ws_clients' = ws_clients \ {o}
  /\ obs' = [obs EXCEPT ![o].pc = "closed"]
  /\ UNCHANGED <<wk, worker_status, poll, credVars, appVars, histVars, faults, lim>>

\* ------------------------------------------------------ tasks and lifespan
Created == { w \in TaskIds : wk[w].pc # "none" }
Running == { w \in TaskIds : wk[w].pc \notin {"none", "done"} }

\* task.done()
Done(w) == wk[w].pc = "done"

\* asyncio.create_task(connect_eventsub_ws(latest), name="eventsub_ws") on the worker
\* table `tasks`
CreateTask(tasks) == [tasks EXCEPT ![Cardinality(Created) + 1] = NewWorker]
CanCreate == Cardinality(Created) < lim.tasks

\* eventsub_task.cancel()
Cancel(tasks, w) == [tasks EXCEPT ![w].cancel = TRUE]

\* ensure_tokens_ready, lines 155-156
LoadedTokens(settings) ==
  [access_token |-> settings.user_access_token,
   refresh_token |-> settings.user_refresh_token]

\* lifespan, lines 47-50: startup up to the refresh of ensure_tokens_ready
LifespanStartup ==
  /\ life.pc = "init"
  /\ token_state' = LoadedTokens(store.settings)
  /\ IF RefreshSkipped(token_state')
       THEN /\ CanCreate
            /\ wk' = CreateTask(wk)
            /\ eventsub_task' = Cardinality(Created) + 1
            /\ life' = [life EXCEPT !.pc = "running"]
       ELSE /\ life' = [life EXCEPT !.pc = "tokens"]
            /\ UNCHANGED <<wk, eventsub_task>>
  /\ UNCHANGED <<worker_status, poll, store, disk, issued, obsVars, req, oauthVars, histVars, faults, lim>>

\* lifespan, lines 49-50: the refresh answered (a failure is printed), the task starts
LifespanTokens ==
  /\ life.pc = "tokens"
  /\ CanCreate
  /\ \/ \E withRefresh \in BOOLEAN : RefreshAnswer(withRefresh)
     \/ UNCHANGED credVars
  /\ wk' = CreateTask(wk)
  /\ eventsub_task' = Cardinality(Created) + 1
  /\ life' = [life EXCEPT !.pc = "running"]
  /\ UNCHANGED <<worker_status, poll, obsVars, req, oauthVars, histVars, faults, lim>>

\* lifespan, lines 61-65: shutdown cancels the task and awaits it
LifespanShutdown ==
  /\ life.pc = "running"
  /\ IF eventsub_task # NoTask /\ ~Done(eventsub_task)
       THEN /\ wk' = Cancel(wk, eventsub_task)
            /\ life' = [pc |-> "stopping", task |-> eventsub_task]
       ELSE /\ life' = [life EXCEPT !.pc = "stopped"]
            /\ UNCHANGED wk
  /\ UNCHANGED <<worker_status, poll, credVars, obsVars, eventsub_task, req, oauthVars, histVars, faults, lim>>

\* lifespan, lines 65-67: the awaited task is done
LifespanStopped ==
  /\ life.pc = "stopping"
  /\ Done(life.task)
  /\ life' = [life EXCEPT !.pc = "stopped"]
  /\ UNCHANGED <<wk, worker_status, poll, credVars, obsVars, eventsub_task, req, oauthVars, histVars,
                 faults, lim>>

\* ----------------------------------------- /internal/restart-eventsub, /internal/quit
\* internal_restart_eventsub, lines 467-469, up to the refresh of ensure_tokens_ready:
\* without a refresh token the new task is created in the same step
RestartTokens(r, rq, settings) ==
  /\ token_state' = LoadedTokens(settings)
  /\ IF RefreshSkipped(token_state')
       THEN /\ CanCreate
            /\ wk' = CreateTask(wk)
            /\ eventsub_task' = Cardinality(Created) + 1
            /\ req' = [req EXCEPT ![r] = [rq EXCEPT !.pc = "done", !.task = NoTask]]
       ELSE /\ req' = [req EXCEPT ![r] = [rq EXCEPT !.pc = "tokens", !.task = NoTask]]
            /\ UNCHANGED <<wk, eventsub_task>>

\* internal_restart_eventsub, lines 461-467, called with the settings as they are now:
\* a live task is cancelled and awaited
Restart(r, rq, settings) ==
  IF eventsub_task # NoTask /\ ~Done(eventsub_task)
    THEN /\ wk' = Cancel(wk, eventsub_task)
         /\ req' = [req EXCEPT ![r] = [rq EXCEPT !.pc = "restart_await",
                                                  !.task = eventsub_task]]
         /\ UNCHANGED <<token_state, eventsub_task>>
    ELSE RestartTokens(r, rq, settings)

\* POST /internal/restart-eventsub
RestartBegin(r) ==
  /\ life.pc = "running"
  /\ req[r].pc = "idle"
  /\ Restart(r, req[r], store.settings)
  /\ UNCHANGED <<worker_status, poll, store, disk, issued, obsVars, life, oauthVars, histVars, faults, lim>>

\* internal_restart_eventsub, lines 464-467: the awaited task is done
RestartAwaited(r) ==
  /\ req[r].pc = "restart_await"
  /\ Done(req[r].task)
  /\ RestartTokens(r, req[r], store.settings)
  /\ UNCHANGED <<worker_status, poll, store, disk, issued, obsVars, life, oauthVars, histVars, faults, lim>>

\* internal_restart_eventsub, lines 467-469: the refresh answered, the task is created
RestartRefreshed(r) ==
  /\ req[r].pc = "tokens"
  /\ CanCreate
  /\ \/ \E withRefresh \in BOOLEAN : RefreshAnswer(withRefresh)
     \/ UNCHANGED credVars
  /\ wk' = CreateTask(wk)
  /\ eventsub_task' = Cardinality(Created) + 1
  /\ req' = [req EXCEPT ![r] = [@ EXCEPT !.pc = "done", !.task = NoTask]]
  /\ UNCHANGED <<worker_status, poll, obsVars, life, oauthVars, histVars, faults, lim>>

\* GET /oauth/callback with a pending state, lines 428-444: the code is posted to the
\* token endpoint
\* oauth_start, lines 405-406, with the client settings filled in:
\* secrets.token_urlsafe(16) is a value never generated before
OAuthStart ==
  /\ life.pc = "running"
  /\ minted < MaxStates
  /\ minted' = minted + 1
  /\ pending_oauth_states' = pending_oauth_states \cup {minted + 1}
  /\ UNCHANGED <<wk, worker_status, poll, credVars, obsVars, eventsub_task, life, req,
                 histVars, faults, lim>>

\* a callback that takes whatever state it is given
AcceptedAnyState(code, state) == code

\* oauth_callback, line 431 (after the error test of 429): the request gets past the
\* test of its code and state
AcceptedState(code, state) ==
  code /\ state # NoState /\ state \in pending_oauth_states

\* oauth_callback, lines 426-436: a request with or without a code and with the state
\* of its query is answered 400, or its state is discarded and the token request posted
CallbackBegin(r, code, state) ==
  /\ life.pc = "running"
  /\ req[r].pc = "idle"
  /\ IF AcceptedState(code, state)
       THEN /\ pending_oauth_states' = pending_oauth_states \ {state}
            /\ req' = [req EXCEPT ![r] = [@ EXCEPT !.pc = "cb_post", !.state = state]]
       ELSE /\ req' = [req EXCEPT ![r] = [@ EXCEPT !.pc = "rejected", !.state = state]]
            /\ UNCHANGED pending_oauth_states
  /\ UNCHANGED <<wk, worker_status, poll, credVars, obsVars, eventsub_task, life, minted,
                 histVars, faults, lim>>

\* the settings after the callback stored the pair it was issued (lines 448-449)
Granted(settings, access, refresh) ==
  [settings EXCEPT !.user_access_token = access, !.user_refresh_token = refresh]

\* oauth_callback, lines 445-453: the token endpoint answered. A failure ends the
\* request; a new pair is stored in the settings and saved, and
\* internal_restart_eventsub is called
CallbackAnswered(r) ==
  /\ req[r].pc = "cb_post"
  /\ \/ /\ Fault
        /\ req' = [req EXCEPT ![r].pc = "done"]
        /\ UNCHANGED <<wk, credVars, eventsub_task>>
     \/ /\ issued < lim.issues
        /\ issued' = issued + 1
        /\ store' = [store EXCEPT !.settings = Granted(@, issued', issued')]
        /\ disk' = Saved(store')
        /\ Restart(r, [req[r] EXCEPT !.got = issued'], store'.settings)
        /\ UNCHANGED faults
  /\ UNCHANGED <<worker_status, poll, obsVars, life, oauthVars, histVars, lim>>

\* POST /admin/save-app, lines 362-376: the form's login is stored and saved
AdminSaveApp(login) ==
  /\ life.pc = "running"
  /\ store.settings.broadcaster_login # login
  /\ store' = [store EXCEPT !.settings.broadcaster_login = login]
  /\ disk' = Saved(store')
  /\ UNCHANGED <<wk, worker_status, poll, token_state, issued, obsVars, appVars, histVars,
                 faults, lim>>

\* internal_quit, lines 486-490: the live task is cancelled and awaited
QuitBegin(r) ==
  /\ life.pc = "running"
  /\ req[r].pc = "idle"
  /\ IF eventsub_task # NoTask /\ ~Done(eventsub_task)
       THEN /\ wk' = Cancel(wk, eventsub_task)
            /\ req' = [req EXCEPT ![r] = [@ EXCEPT !.pc = "quit_await", !.task = eventsub_task]]
       ELSE /\ req' = [req EXCEPT ![r] = [@ EXCEPT !.pc = "done", !.task = NoTask]]
            /\ UNCHANGED wk
  /\ UNCHANGED <<worker_status, poll, credVars, obsVars, eventsub_task, life, oauthVars, histVars, faults, lim>>

\* internal_quit, lines 490-493: the awaited task is done
QuitAwaited(r) ==
  /\ req[r].pc = "quit_await"
  /\ Done(req[r].task)
  /\ req' = [req EXCEPT ![r] = [@ EXCEPT !.pc = "done", !.task = NoTask]]
  /\ UNCHANGED <<wk, worker_status, poll, credVars, obsVars, eventsub_task, life, oauthVars, histVars,
                 faults, lim>>

\* ------------------------------------------------------------ initial state
NoLatest == [follow |-> None, sub |-> None, bits |-> None]

\* Settings as Store.load() may find them: nothing configured, a login and a token
\* pair, everything resolved
Configured ==
  [broadcaster_login |-> "chan", broadcaster_id |-> "b1", moderator_user_id |-> "m1",
   user_access_token |-> 1, user_refresh_token |-> NoToken]

\* the settings after an OAuth grant: everything resolved, a refresh token held
Authorized == [Configured EXCEPT !.user_refresh_token = 1]

\* the settings after the login was saved and the account connected, before the first
\* lookup
Unresolved ==
  [broadcaster_login |-> "chan", broadcaster_id |-> "", moderator_user_id |-> "",
   user_access_token |-> 1, user_refresh_token |-> NoToken]

InitialSettings ==
  { [broadcaster_login |-> "", broadcaster_id |-> "", moderator_user_id |-> "",
     user_access_token |-> NoToken, user_refresh_token |-> NoToken],
    [broadcaster_login |-> "", broadcaster_id |-> "", moderator_user_id |-> "",
     user_access_token |-> 1, user_refresh_token |-> NoToken],
    [broadcaster_login |-> "chan", broadcaster_id |-> "", moderator_user_id |-> "",
     user_access_token |-> 1, user_refresh_token |-> 1],
    Configured }

\* the bits totals Store.load() may find
StoredBits == {0, 40}

InitialStore(settings, bits) ==
  [settings |-> settings,
   latest |-> NoLatest,
   stats |-> [total_bits |-> bits],
   recent |-> [follows |-> <<>>, subs |-> <<>>, cheers |-> <<>>, max_items |-> MAX_ITEMS]]

\* a request not made yet; of a callback, `state` is the state value of its query
NoRequest == [pc |-> "idle", task |-> NoTask, got |-> NoToken, state |-> NoState]

\* one frame of each kind
KindFrames ==
  { Notification("channel.follow",
      [user_name |-> JStr("Ann"), user_login |-> JStr("ann"),
       user_id |-> JStr("11"), followed_at |-> JStr("t1")]),
    Notification("channel.subscribe",
      [user_name |-> JStr("Cy"), tier |-> JStr("1000")]),
    Notification("channel.cheer",
      [user_name |-> JStr("Foo"), bits |-> JInt(100), message |-> JStr("hi")]) }

CheerFrame ==
  { Notification("channel.cheer",
      [user_name |-> JStr("Foo"), bits |-> JInt(100), message |-> JStr("hi")]) }

InitWith(limits, settingsChoice) ==
  /\ wk = [w \in TaskIds |-> NoWorker]
  /\ worker_status = InitialStatus
  /\ poll = NoPoll
  /\ token_state = EmptyTokenState
  /\ \E settings \in settingsChoice, bits \in limits.bits :
       store = InitialStore(settings, bits)
  /\ disk = Saved(store)
  /\ issued = 1
  /\ ws_clients = {}
  /\ obs = [o \in Observers |-> NoObserver]
  /\ eventsub_task = NoTask
  /\ life = [pc |-> "init", task |-> NoTask]
  /\ req = [r \in Requests \cup Callbacks |-> NoRequest]
  /\ pending_oauth_states = {}
  /\ minted = 0
  /\ readLog = <<>>
  /\ pubLog = <<>>
  /\ faults = 0
  /\ noise = 0
  /\ pushed = [follows |-> 0, subs |-> 0, cheers |-> 0]
  /\ lim = [bits0 |-> store.stats.total_bits] @@ limits

\* the steps of a worker whose attempts all succeed
AttemptStep(w) ==
  \/ WorkerStart(w)
  \/ Connected(w)
  \/ Welcome(w)
  \/ SubscribePost(w)
  \/ Cancelled(w)

\* the steps of a worker whose attempt fails or needs a lookup
RetryStep(w) ==
  \/ LookupBroadcaster(w)
  \/ LookupModerator(w)
  \/ WelcomePause(w)
  \/ SubscribeRefresh(w)
  \/ SubscribeRetry(w)
  \/ StreamClosed(w)
  \/ ErrRefresh(w)
  \/ Sleep(w)

\* the event dispatcher and the fan-out
DispatchStep(w) ==
  \/ \E frame \in lim.sends : ReadFrame(w, frame)
  \/ BroadcastSend(w)

ObserverStep(o) ==
  \/ ClientConnect(o)
  \/ ClientDisconnect(o)
  \/ Accepted(o)
  \/ Bootstrapped(o)
  \/ Detached(o)

LifespanStep ==
  \/ LifespanStartup
  \/ LifespanTokens
  \/ LifespanShutdown
  \/ LifespanStopped

RequestStep(r) ==
  \/ RestartBegin(r)
  \/ RestartAwaited(r)
  \/ QuitBegin(r)
  \/ QuitAwaited(r)

\* Spec: the fan-out. The worker the lifespan starts on a configured store, an event
\* service that answers every call and sends event frames, and two overlay clients.
Init ==
  InitWith([issues |-> MaxIssued, tasks |-> 1, frames |-> MaxFanoutFrames, noise |-> 0, faults |-> 0,
            clients |-> 2, sends |-> KindFrames, bits |-> {0}],
           {Configured})

Next ==
  \/ \E w \in TaskIds : AttemptStep(w) \/ DispatchStep(w)
  \/ \E o \in Observers : ObserverStep(o)
  \/ LifespanStartup
  \/ LifespanShutdown
  \/ LifespanStopped

Spec == Init /\ [][Next]_vars

\* SpecSession: the session state machine. The worker the lifespan starts on any
\* store, an event service that fails, and sends no frame after the welcome.
InitSession ==
  InitWith([issues |-> MaxIssued, tasks |-> 1, frames |-> 0, noise |-> 0, faults |-> MaxSessionFaults,
            clients |-> 0, sends |-> {}, bits |-> {0}],
           InitialSettings)

NextSession ==
  \/ \E w \in TaskIds : AttemptStep(w) \/ RetryStep(w)
  \/ LifespanStep

SpecSession == InitSession /\ [][NextSession]_vars

\* FairSession: the session state machine with few failures, where the token endpoint
\* answers or its request times out (timeout=20) and asyncio.sleep(backoff) returns
InitFair ==
  InitWith([issues |-> MaxIssued, tasks |-> 1, frames |-> 0, noise |-> 0, faults |-> MaxFaults,
            clients |-> 0, sends |-> {}, bits |-> {0}],
           InitialSettings)

FairSession ==
  /\ InitFair
  /\ [][NextSession]_vars
  /\ \A w \in TaskIds : WF_vars(ErrRefresh(w)) /\ WF_vars(Sleep(w))

\* SpecDispatch: the event dispatcher. The worker the lifespan starts on a configured
\* store with any bits total, an event service that fails and sends frames of every
\* shape, and no overlay client.
InitDispatch ==
  InitWith([issues |-> MaxIssued, tasks |-> 1, frames |-> MaxFrames, noise |-> MaxNoise, faults |-> MaxFaults,
            clients |-> 0, sends |-> EventFrames \cup NoiseFrames, bits |-> StoredBits],
           {Configured})

NextDispatch ==
  \/ \E w \in TaskIds : AttemptStep(w) \/ StreamClosed(w) \/ Sleep(w)
  \/ \E w \in TaskIds : \E frame \in lim.sends : ReadFrame(w, frame)
  \/ LifespanStartup
  \/ LifespanShutdown
  \/ LifespanStopped

SpecDispatch == InitDispatch /\ [][NextDispatch]_vars

\* SpecMalformed: the dispatcher where every frame that is not an event is one that
\* json.loads rejects
InitMalformed ==
  InitWith([issues |-> MaxIssued, tasks |-> 1, frames |-> MaxFrames, noise |-> MaxNoise, faults |-> MaxFaults,
            clients |-> 0, sends |-> EventFrames \cup {Unparseable}, bits |-> StoredBits],
           {Configured})

SpecMalformed == InitMalformed /\ [][NextDispatch]_vars

\* SpecRecent: Recent alone. Items are pushed to the buckets of the loaded store; an
\* item is the number of its push.
InitRecent ==
  InitWith([issues |-> MaxIssued, tasks |-> 0, frames |-> 0, noise |-> 0, faults |-> 0, clients |-> 0,
            sends |-> {}, bits |-> {0}],
           {Configured})

PushFollow ==
  /\ pushed.follows < MaxPushes
  /\ pushed' = [pushed EXCEPT !.follows = @ + 1]
  /\ store' = [store EXCEPT !.recent = push_follow(@, JInt(pushed'.follows))]
  /\ UNCHANGED <<wk, worker_status, poll, token_state, disk, issued, obsVars, appVars,
                 readLog, pubLog, noise, faults, lim>>

PushSub ==
  /\ pushed.subs < MaxFewPushes
  /\ pushed' = [pushed EXCEPT !.subs = @ + 1]
  /\ store' = [store EXCEPT !.recent = push_sub(@, JInt(pushed'.subs))]
  /\ UNCHANGED <<wk, worker_status, poll, token_state, disk, issued, obsVars, appVars,
                 readLog, pubLog, noise, faults, lim>>

PushCheer ==
  /\ pushed.cheers < MaxFewPushes
  /\ pushed' = [pushed EXCEPT !.cheers = @ + 1]
  /\ store' = [store EXCEPT !.recent = push_cheer(@, JInt(pushed'.cheers))]
  /\ UNCHANGED <<wk, worker_status, poll, token_state, disk, issued, obsVars, appVars,
                 readLog, pubLog, noise, faults, lim>>

NextRecent == PushFollow \/ PushSub \/ PushCheer

SpecRecent == InitRecent /\ [][NextRecent]_vars

\* SpecCancel: cancellation at every await. The worker the lifespan starts on any
\* store, an event service that fails and sends a frame, one overlay client, and the
\* shutdown that cancels the worker.
InitCancel ==
  InitWith([issues |-> MaxIssued, tasks |-> 1, frames |-> MaxFanoutFrames, noise |-> 0, faults |-> MaxFaults,
            clients |-> 1, sends |-> CheerFrame, bits |-> {0}],
           InitialSettings)

NextCancel ==
  \/ \E w \in TaskIds : AttemptStep(w) \/ RetryStep(w) \/ DispatchStep(w)
  \/ \E o \in Observers : ObserverStep(o)
  \/ LifespanStep

SpecCancel == InitCancel /\ [][NextCancel]_vars

\* SpecStatus: the status poller. The worker the lifespan starts on a configured
\* store, an event service that fails, and calls of /status served in another thread.
InitStatus ==
  InitWith([issues |-> MaxIssued, tasks |-> 1, frames |-> 0, noise |-> 0, faults |-> MaxFaults,
            clients |-> 0, sends |-> {}, bits |-> {0}],
           {Configured})

NextStatus ==
  \/ \E w \in TaskIds : AttemptStep(w) \/ SubscribeRetry(w) \/ StreamClosed(w) \/ Sleep(w)
  \/ LifespanStartup
  \/ LifespanShutdown
  \/ LifespanStopped
  \/ PollRead
  \/ PollReturn

SpecStatus == InitStatus /\ [][NextStatus]_vars

\* SpecOAuth: the OAuth callback. The lifespan, two restart requests and one OAuth
\* callback on an authorized store, the workers they create, and an event service
\* that refuses a connection or accepts it and sends nothing.
InitOAuth ==
  InitWith([issues |-> MaxOAuthIssued, tasks |-> MaxTasks, frames |-> 0, noise |-> 0,
            faults |-> MaxFaults, clients |-> 0, sends |-> {}, bits |-> {0}],
           {Authorized})

RestartStep(r) ==
  \/ RestartAwaited(r)
  \/ RestartRefreshed(r)

NextOAuth ==
  \/ \E w \in TaskIds : WorkerStart(w) \/ Connected(w) \/ ErrRefresh(w) \/ Sleep(w)
  \/ \E w \in TaskIds : Cancelled(w)
  \/ \E r \in Requests : RestartBegin(r) \/ RestartStep(r)
  \/ \E r \in Callbacks : CallbackAnswered(r) \/ RestartStep(r)
  \/ \E r \in Callbacks : \E code \in BOOLEAN, state \in 0..Forged : CallbackBegin(r, code, state)
  \/ OAuthStart
  \/ LifespanStartup
  \/ LifespanTokens

SpecOAuth == InitOAuth /\ [][NextOAuth]_vars

\* SpecCallback: /oauth/start and several /oauth/callback requests, with any code and
\* state in their query, next to the worker they restart
InitCallback ==
  InitWith([issues |-> MaxOAuthIssued, tasks |-> MaxTasks, frames |-> 0, noise |-> 0,
            faults |-> MaxFaults, clients |-> 0, sends |-> {}, bits |-> {0}],
           {Configured, Authorized})

NextCallback ==
  \/ OAuthStart
  \/ \E r \in Requests \cup Callbacks : \E code \in BOOLEAN, state \in 0..Forged :
       CallbackBegin(r, code, state)
  \/ \E r \in Requests \cup Callbacks : CallbackAnswered(r) \/ RestartStep(r)
  \/ \E w \in TaskIds : WorkerStart(w) \/ Cancelled(w)
  \/ LifespanStartup
  \/ LifespanTokens

SpecCallback == InitCallback /\ [][NextCallback]_vars

\* SpecIds: the identity resolver. The lifespan and two restart requests on a store
\* with no id resolved yet, the workers they create, lookups that may fail, and the
\* admin page that saves another login.
InitIds ==
  InitWith([issues |-> MaxIssued, tasks |-> MaxTasks, frames |-> 0, noise |-> 0,
            faults |-> MaxFaults, clients |-> 0, sends |-> {}, bits |-> {0}],
           {Unresolved})

NextIds ==
  \/ \E w \in TaskIds : WorkerStart(w) \/ LookupBroadcaster(w) \/ LookupModerator(w)
  \/ \E w \in TaskIds : Sleep(w) \/ Cancelled(w)
  \/ \E r \in Requests : RestartBegin(r) \/ RestartAwaited(r)
  \/ \E login \in {"chan", "other"} : AdminSaveApp(login)
  \/ LifespanStartup

SpecIds == InitIds /\ [][NextIds]_vars

\* SpecSave: Store.save step by step. The handlers and the worker change the store and
\* save it, all on the one event loop, so a save never overlaps another; the process
\* may be killed between any two steps of a save.
InitSave ==
  InitWith([issues |-> MaxIssued, tasks |-> 0, frames |-> MaxSaveFrames, noise |-> 0, faults |-> 0,
            clients |-> 0, sends |-> KindFrames, bits |-> StoredBits],
           {Configured})

Alive == life.pc # "killed"
InSave == disk.tmp.exists

\* admin_save_app and oauth_callback, the settings they write (lines 370-375, 448-449)
AdminChanges(settings) ==
  { [settings EXCEPT !.broadcaster_login = login] : login \in {"chan", "other"} }
    \cup { [settings EXCEPT !.user_access_token = 2, !.user_refresh_token = 2] }

\* the worker dispatches a frame and calls save: up to the opening of the temp file
SaveDispatch ==
  /\ Alive /\ ~InSave
  /\ Len(readLog) < lim.frames
  /\ \E frame \in lim.sends :
       /\ readLog' = Append(readLog, frame)
       /\ store' = Dispatch(store, frame)
  /\ disk' = Opened(disk)
  /\ UNCHANGED <<wk, worker_status, poll, token_state, issued, obsVars, appVars, pubLog,
                 noise, pushed, faults, lim>>

\* a handler changes the settings and calls save: up to the opening of the temp file
SaveSettings ==
  /\ Alive /\ ~InSave
  /\ \E settings \in AdminChanges(store.settings) :
       store' = [store EXCEPT !.settings = settings]
  /\ disk' = Opened(disk)
  /\ UNCHANGED <<wk, worker_status, poll, token_state, issued, obsVars, appVars, histVars,
                 faults, lim>>

\* write_text goes on
SaveWrite ==
  /\ Alive /\ InSave
  /\ Len(disk.tmp.chunks) < Len(Dumped(store))
  /\ disk' = Written(disk, Dumped(store))
  /\ UNCHANGED <<wk, worker_status, poll, token_state, store, issued, obsVars, appVars,
                 histVars, faults, lim>>

\* write_text returned, the temp file is renamed
SaveReplace ==
  /\ Alive /\ InSave
  /\ Len(disk.tmp.chunks) = Len(Dumped(store))
  /\ disk' = Replaced(disk)
  /\ UNCHANGED <<wk, worker_status, poll, token_state, store, issued, obsVars, appVars,
                 histVars, faults, lim>>

\* the process is killed
Kill ==
  /\ Alive
  /\ life' = [life EXCEPT !.pc = "killed"]
  /\ UNCHANGED <<wk, worker_status, poll, credVars, obsVars, eventsub_task, req, oauthVars, histVars,
                 faults, lim>>

NextSave == SaveDispatch \/ SaveSettings \/ SaveWrite \/ SaveReplace \/ Kill

SpecSave == InitSave /\ [][NextSave]_vars

\* SpecApp: the task table. The lifespan and two control requests on a configured
\* store, the workers they create, and one overlay client.
InitApp ==
  InitWith([issues |-> MaxIssued, tasks |-> MaxTasks, frames |-> MaxAppFrames, noise |-> 0, faults |-> 0,
            clients |-> 1, sends |-> CheerFrame, bits |-> {0}],
           {Configured})

NextApp ==
  \/ \E w \in TaskIds : AttemptStep(w) \/ DispatchStep(w)
  \/ \E o \in Observers : ObserverStep(o)
  \/ \E r \in Requests : RequestStep(r)
  \/ LifespanStartup
  \/ LifespanShutdown
  \/ LifespanStopped

SpecApp == InitApp /\ [][NextApp]_vars

\* ------------------------------------------------------------- properties
\* what the worker has read, by subscription type
IsFollow(f) == f \in FollowFrames
IsSubscribe(f) == f \in SubscribeFrames
IsCheer(f) == f \in CheerFrames

\* the kind tag of an event frame
KindTag(f) == IF IsFollow(f) THEN "follow" ELSE IF IsSubscribe(f) THEN "sub" ELSE "bits"

\* the normalized payloads of the frames of one type, in the order they were read
PayloadsOf(log, Is(_)) ==
  LET sel == SelectSeq(log, Is)
  IN [i \in 1..Len(sel) |-> Payload(sel[i])]

\* the normalized payload of the last frame of one type, None when there was none
LastPayloadOf(log, Is(_)) ==
  LET sel == SelectSeq(log, Is)
  IN IF sel = <<>> THEN None ELSE Payload(sel[Len(sel)])

\* the bits a cheer frame carries: its integer bits field, 0 when missing or null
BitsOf(f) ==
  LET ev == FrameEvent(f).v
  IN IF "bits" \in DOMAIN ev /\ ev["bits"].t = "int" THEN ev["bits"].v ELSE 0

RECURSIVE SumBits(_)
SumBits(log) ==
  IF log = <<>> THEN 0
  ELSE (IF IsCheer(Head(log)) THEN BitsOf(Head(log)) ELSE 0) + SumBits(Tail(log))

\* the numbers of the published messages a client has received
Numbers(o) == { obs[o].inbox[i].n : i \in DOMAIN obs[o].inbox } \ {NoMessage.n}

\* a worker is in, or was cancelled in, the pass that publishes message n
Unfinished(n) == \E w \in TaskIds : wk[w].msg.n = n /\ wk[w].msg # NoMessage

\* the client's handler is past ws_clients.add and has not ended
Attached(o) == obs[o].pc \in {"bootstrap", "receive"}

\* ---- C1
Delays == <<1, 2, 4, 8, 16, 30>>
DelayAfter(n) == Delays[Min(n + 1, Len(Delays))]

\* C1: the delay of a worker is 1 until its first failure; the delay it sleeps after
\* its n-th consecutive failed attempt is the n-th of 1, 2, 4, 8, 16, 30, 30, ...; and
\* it is 1 again whenever the session is Streaming (no failure since).
C1_BackoffSchedule ==
  \A w \in TaskIds :
    LET r == wk[w]
    IN /\ r.pc \in {"err_refresh", "sleep"} =>
            /\ r.fails >= 1
            /\ r.backoff = DelayAfter(r.fails - 1)
       /\ r.pc \notin {"none", "start", "done", "err_refresh", "sleep"} =>
            r.backoff = DelayAfter(r.fails)
       /\ r.pc \in {"stream", "bcast"} => r.fails = 0 /\ r.backoff = BACKOFF_MIN

\* six failed attempts in a row: the worker sleeps the capped delay
C1_Witness ==
  \E w \in TaskIds :
    /\ wk[w].pc = "sleep"
    /\ wk[w].fails = Len(Delays)
    /\ wk[w].backoff = BACKOFF_MAX
    /\ worker_status.backoff_s = BACKOFF_MAX

\* ---- C2
\* C2: at most one worker task is running at any moment.
C2_OneWorker == Cardinality(Running) <= 1

\* ---- C3
\* C3: each Recent list holds exactly the normalized payloads of the event frames of
\* its own subscription type, once each and in the order they were read (no frame is
\* missing, doubled or in another kind's list).
C3_AppendedOnce ==
  /\ store.recent.follows = PayloadsOf(readLog, IsFollow)
  /\ store.recent.subs = PayloadsOf(readLog, IsSubscribe)
  /\ store.recent.cheers = PayloadsOf(readLog, IsCheer)

\* a follow and a subscribe were read, one before and one after a reconnect
C3_Witness ==
  /\ Len(readLog) = MaxFrames
  /\ faults > 0
  /\ Len(store.recent.follows) = 1
  /\ Len(store.recent.subs) = 1

\* ---- C4
\* C4: total_bits is the value loaded at start plus the sum of the bits fields of the
\* cheer events read, a missing or null bits field counting as 0.
C4_TotalBits == store.stats.total_bits = lim.bits0 + SumBits(readLog)

\* a cheer with null bits and a cheer with bits were added to a nonzero prior total
C4_Witness ==
  /\ Len(readLog) = MaxFrames
  /\ \E i \in DOMAIN readLog : IsCheer(readLog[i]) /\ BitsOf(readLog[i]) = 0
  /\ \E i \in DOMAIN readLog : IsCheer(readLog[i]) /\ BitsOf(readLog[i]) > 0
  /\ lim.bits0 > 0
  /\ store.stats.total_bits > lim.bits0

\* ---- C5
\* C5: the latest slot of each kind holds the normalized payload of the last event of
\* that kind read so far, and is unset when there was none.
C5_LatestSlots ==
  /\ store.latest.follow = LastPayloadOf(readLog, IsFollow)
  /\ store.latest.sub = LastPayloadOf(readLog, IsSubscribe)
  /\ store.latest.bits = LastPayloadOf(readLog, IsCheer)

\* two different follows and no other event: the slot holds the second, the other
\* slots are unset
C5_Witness ==
  /\ Len(readLog) = MaxFrames
  /\ \A i \in DOMAIN readLog : IsFollow(readLog[i])
  /\ Payload(readLog[1]) # Payload(readLog[Len(readLog)])
  /\ store.latest.follow = Payload(readLog[Len(readLog)])
  /\ store.latest.sub = None
  /\ store.latest.bits = None

\* ---- C6
\* the last Min(n, max) of the items 1..n, in push order
LastOf(n, max) == [i \in 1..Min(n, max) |-> JInt(n - Min(n, max) + i)]

\* C6: after n pushes to a Recent list its length is min(n, 100) and it holds the
\* last min(n, 100) items pushed, in push order.
C6_RecentWindow ==
  /\ store.recent.follows = LastOf(pushed.follows, MAX_ITEMS)
  /\ store.recent.subs = LastOf(pushed.subs, MAX_ITEMS)
  /\ store.recent.cheers = LastOf(pushed.cheers, MAX_ITEMS)
  /\ Len(store.recent.follows) = Min(pushed.follows, MAX_ITEMS)

\* more pushes than the cap: the oldest items are gone
C6_Witness ==
  /\ pushed.follows = MaxPushes
  /\ pushed.follows > MAX_ITEMS
  /\ Len(store.recent.follows) = MAX_ITEMS
  /\ store.recent.follows[1] = JInt(pushed.follows - MAX_ITEMS + 1)
  /\ store.recent.follows[MAX_ITEMS] = JInt(pushed.follows)

\* ---- C7
\* the two messages of the i-th event frame read
UpdateOf(i) == Message("latest_update", KindTag(readLog[i]), Payload(readLog[i]), 2 * i - 1)
AlertOf(i) == Message("alert", KindTag(readLog[i]), Payload(readLog[i]), 2 * i)

\* the worker was cancelled while the latest_update publish was suspended in a send
CancelledInUpdate == \E w \in TaskIds : Done(w) /\ wk[w].msg.op = "latest_update"
\* the worker is suspended in a send of the latest_update publish
InUpdate == \E w \in TaskIds : wk[w].pc = "bcast" /\ wk[w].msg.op = "latest_update"

\* C7 (as stated): once no worker is inside a dispatch, every event frame read has
\* been published exactly twice, as a latest_update and then as an alert.
C7_AlwaysTwice ==
  (\A w \in TaskIds : wk[w].pc # "bcast") => Len(pubLog) = 2 * Len(readLog)

\* C7 (amended): every event frame read is published as a latest_update and then as
\* an alert with the same payload and the kind tag of its type, nothing else is
\* published, and the alert is missing only while the latest_update publish is
\* suspended or after the worker was cancelled in it.
C7_TwiceUnlessCancelled ==
  /\ \A i \in DOMAIN readLog :
       /\ 2 * i - 1 <= Len(pubLog)
       /\ pubLog[2 * i - 1] = UpdateOf(i)
       /\ 2 * i <= Len(pubLog) => pubLog[2 * i] = AlertOf(i)
  /\ Len(pubLog) <= 2 * Len(readLog)
  /\ Len(pubLog) < 2 * Len(readLog) => InUpdate \/ CancelledInUpdate

\* a subscribe event was published twice although a send of the pass raised and the
\* client was discarded
C7_Witness ==
  /\ Len(readLog) = 1
  /\ IsSubscribe(readLog[1])
  /\ Len(pubLog) = 2
  /\ \A w \in TaskIds : wk[w].pc # "bcast"
  /\ \E o \in Observers : obs[o].pc = "receive" /\ o \notin ws_clients

\* ---- C8
\* C8: the first message a client receives is the bootstrap.
C8_BootstrapFirst ==
  \A o \in Observers : obs[o].inbox # <<>> => obs[o].inbox[1].op = "bootstrap"

\* ---- C9
\* C9, the pass visits everybody: a finished pass has delivered its message to every
\* client that was attached before the publish and is still attached with an open
\* socket; and a client with an open socket is never discarded.
C9_AllAttempted ==
  /\ \A o \in Observers :
       Attached(o) /\ obs[o].open =>
         /\ o \in ws_clients
         /\ \A n \in DOMAIN pubLog : obs[o].joined < n /\ ~Unfinished(n) => n \in Numbers(o)

\* C9, discarded only after the pass: a step that takes a client out of the set is
\* either the client's own handler or the last send of a pass whose send to the client
\* raised.
C9_DiscardAtEnd ==
  \A o \in ws_clients \ ws_clients' :
    \/ obs[o].pc = "receive" /\ obs'[o].pc = "closed"
    \/ \E w \in TaskIds :
         /\ wk[w].pc = "bcast"
         /\ Len(wk[w].todo) = 1
         /\ wk'[w].pc # "bcast" \/ wk'[w].msg # wk[w].msg
         /\ ~obs[o].open
         /\ o \in Elements(wk[w].stale) \cup {Head(wk[w].todo)}

\* C9: in one publish pass every client of the set gets its send, a client whose send
\* raised is discarded only when the pass has visited all, and a client whose send
\* succeeded stays attached.
C9_PublishPass == []C9_AllAttempted /\ [][C9_DiscardAtEnd]_vars

\* a pass ended: one client was discarded because its send raised, the other received
\* both messages and is still attached
C9_Witness ==
  /\ Len(pubLog) = 2
  /\ \A w \in TaskIds : wk[w].pc # "bcast"
  /\ \E o \in Observers : obs[o].pc = "receive" /\ o \notin ws_clients /\ ~obs[o].open
  /\ \E o \in Observers : o \in ws_clients /\ obs[o].open /\ Numbers(o) = {1, 2}

\* ---- C10
\* C10: every client receives the published messages in the order of the publish
\* calls.
C10_PublishOrder ==
  \A o \in Observers :
    \A i, j \in DOMAIN obs[o].inbox :
      (i < j /\ obs[o].inbox[i].op # "bootstrap" /\ obs[o].inbox[j].op # "bootstrap")
        => obs[o].inbox[i].n < obs[o].inbox[j].n

\* ---- C11
\* the subscribe call of worker w has ended (it returned or raised)
Ended(w) == wk[w].call.out \in {"ok", "failed"}

C12_FileWhole == Parses(disk.target)

\* the target file changes only by the rename of a temp file that holds the whole new
\* version
C12_TargetStep ==
  disk'.target # disk.target =>
    /\ disk.tmp = File(Dumped(store))
    /\ disk'.target = File(Dumped(store))
    /\ store' = store

\* C12: at every point of every save, and so wherever the process stops, the target file
\* holds a complete version of the store: the previous one until the rename, the new one
\* from the rename on, never a truncated or mixed one.
C12_AtomicSave == []C12_FileWhole /\ [][C12_TargetStep]_vars

\* the process was killed while the temp file was half written: the target still holds
\* the whole previous version
C12_Witness ==
  /\ life.pc = "killed"
  /\ InSave
  /\ Len(disk.tmp.chunks) = 2
  /\ Parses(disk.target)
  /\ disk.target # File(Dumped(store))
  /\ Load(disk.target, InitialStore(Configured, 0)).stats.total_bits < store.stats.total_bits

\* ---- C13
\* the awaits of connect_eventsub_ws
Awaits ==
  {"lookup_b", "lookup_m", "connecting", "welcome", "welcome_pause", "sub_post",
   "sub_refresh", "sub_retry", "stream", "bcast", "err_refresh", "sleep"}

\* a worker cancelled in one of its awaits has ended there, with connected = false
C13_EndedCancelled ==
  \A w \in TaskIds :
    Done(w) /\ wk[w].at \in Awaits => ~worker_status.connected /\ ~wk[w].cancel

\* a worker with a pending cancellation takes no step but its end; a worker ends only
\* by a cancellation; a worker that has ended never moves again
C13_CancelStep ==
  \A w \in TaskIds :
    /\ wk[w].cancel /\ wk'[w] # wk[w] => wk'[w].pc = "done" /\ wk'[w].at = wk[w].pc
    /\ ~Done(w) /\ wk'[w].pc = "done" => wk[w].cancel
    /\ Done(w) => wk'[w] = wk[w]

\* C13: a worker cancelled at any await sets connected = false, starts no further
\* attempt and ends; no handler swallows the cancellation and the ended worker never
\* resumes.
C13_Cancellation == []C13_EndedCancelled /\ [][C13_CancelStep]_vars

\* the worker was cancelled in the handler's token refresh, after a failure
C13_Witness ==
  \E w \in TaskIds :
    /\ Done(w)
    /\ wk[w].at = "err_refresh"
    /\ worker_status.last_error # ""
    /\ ~worker_status.connected
    /\ life.pc = "stopped"

\* ---- C14
\* worker w is in the error handler of turn b of its loop
Erred(w, b) == wk[w].pc \in {"err_refresh", "sleep"} /\ wk[w].turn = b

\* a worker ends only where a cancellation reached it
C14_NoExit == \A w \in TaskIds : Done(w) => wk[w].at \in Awaits \cup {"start"}

\* C14: no error ends the worker, and after every error the worker, unless it is
\* cancelled, starts the next turn of its loop (another connection attempt).
C14_Retries ==
  /\ []C14_NoExit
  /\ \A w \in TaskIds : \A b \in BOOLEAN :
       Erred(w, b) ~> (wk[w].turn # b \/ wk[w].cancel \/ Done(w))

\* after a failure the worker has slept, started the next attempt and got as far as the
\* subscriptions
C14_Witness ==
  \E w \in TaskIds :
    /\ faults = MaxFaults
    /\ wk[w].pc = "sub_post"
    /\ wk[w].fails = 1
    /\ wk[w].backoff = NextBackoff(BACKOFF_MIN)
    /\ worker_status.last_error # ""
    /\ ~wk[w].cancel

\* ---- C15
\* the awaits of the states Connecting, AwaitingWelcome, Subscribing and Streaming
SessionAwaits == {"connecting", "welcome", "sub_post", "sub_refresh", "sub_retry", "stream"}
InHandler(r) == r.pc \in {"err_refresh", "sleep"}

\* in the handler the status shows the failure: connected = false, an error text, the
\* backoff about to be slept
C15_StatusInHandler ==
  \A w \in TaskIds :
    InHandler(wk[w]) =>
      /\ ~worker_status.connected
      /\ worker_status.last_error # ""
      /\ worker_status.backoff_s = wk[w].backoff

\* a failure in a session state enters the handler with the status written and the
\* backoff unchanged, and awaits the refresh unless there is no refresh token; the
\* refresh, answered or failed, is followed by the sleep and changes nothing of the
\* status; the sleep is entered no other way
C15_HandlerStep ==
  \A w \in TaskIds :
    /\ wk[w].pc \in SessionAwaits /\ InHandler(wk'[w]) =>
         /\ ~worker_status'.connected
         /\ worker_status'.last_error \in
              {"connect failed", "connection closed", "welcome is not JSON",
               "subscribe failed", "refresh failed"}
         /\ worker_status'.backoff_s = wk[w].backoff
         /\ wk'[w].backoff = wk[w].backoff
         /\ wk'[w].pc = "sleep" <=> token_state.refresh_token = NoToken
    /\ wk[w].pc = "err_refresh" /\ wk'[w].pc # "err_refresh" =>
         /\ wk'[w].pc \in {"sleep", "done"}
         /\ wk'[w].backoff = wk[w].backoff
         /\ wk'[w].pc = "sleep" => worker_status' = worker_status
    /\ wk[w].pc # "sleep" /\ wk'[w].pc = "sleep" =>
         wk[w].pc = "err_refresh" \/ token_state.refresh_token = NoToken

\* C15: on a failure in Connecting, AwaitingWelcome, Subscribing or Streaming the worker
\* writes connected = false, the error text and the current backoff to the status, makes
\* one token refresh attempt whose failure does not stop the loop, and only then sleeps.
C15_FailureHandling == []C15_StatusInHandler /\ [][C15_HandlerStep]_vars

\* a stream failure with a refresh token held: the refresh was awaited, the worker now
\* sleeps
C15_Witness ==
  \E w \in TaskIds :
    /\ wk[w].pc = "sleep"
    /\ token_state.refresh_token # NoToken
    /\ worker_status.last_error = "subscribe failed"
    /\ worker_status.backoff_s = wk[w].backoff
    /\ wk[w].backoff > BACKOFF_MIN

\* ---- C16
\* the awaits inside `async with websockets.connect(...)`: the session
InSession(r) ==
  r.pc \in {"welcome", "welcome_pause", "sub_post", "sub_refresh", "sub_retry", "stream",
            "bcast"}

\* a worker holds one connection inside a session and none anywhere else, in
\* particular none in the handler's refresh, in the backoff sleep, or once cancelled
C16_HeldInSession ==
  \A w \in TaskIds : wk[w].conn = IF InSession(wk[w]) THEN 1 ELSE 0

\* every step of a worker that is in a session leaves it with its connection, into
\* the same session, or with no connection at all: no connection outlives its session
C16_ExitStep ==
  \A w \in TaskIds :
    InSession(wk[w]) /\ wk'[w] # wk[w] =>
      \/ InSession(wk'[w]) /\ wk'[w].conn = 1 /\ wk'[w].turn = wk[w].turn
      \/ ~InSession(wk'[w]) /\ wk'[w].conn = 0

\* C16: the connection is closed on every way out of a session (failure, bad welcome,
\* end of stream, cancellation): a worker holds at most one open connection, and none
\* in the backoff wait or once cancelled.
C16_ConnectionClosed == []C16_HeldInSession /\ [][C16_ExitStep]_vars

\* the worker was cancelled while it sent an event to a client, after a failure of the
\* event service: no connection is left
C16_Witness ==
  \E w \in TaskIds :
    /\ Done(w)
    /\ wk[w].at = "bcast"
    /\ faults > 0
    /\ wk[w].conn = 0

\* ---- C17
\* C17: every value get_worker_status returns equals the live status as it was at one
\* instant of the call, also when /status is served in another thread than the worker.
C17_SnapshotAtOneInstant ==
  poll.pc = Len(STATUS_KEYS) => poll.snap \in poll.lives

\* ---- C18
\* callback r has stored the pair it was issued and is suspended in
\* internal_restart_eventsub
Stored(r) == req[r].got # NoToken /\ req[r].pc \in {"restart_await", "tokens"}

\* the refresh of worker w, posted with another refresh token than the one callback r
\* was issued, is answered
StaleRefreshAnswered(w, r) ==
  /\ wk[w].pc \in {"err_refresh", "sub_refresh"}
  /\ wk'[w].pc \notin {"err_refresh", "sub_refresh", "done"}
  /\ wk[w].sent # req[r].got

\* C18: a worker's refresh that completes while the OAuth callback is suspended does
\* not overwrite the pair the callback stored: the settings and the token state keep
\* their tokens.
C18_NoStaleOverwrite ==
  [][\A r \in Callbacks : \A w \in TaskIds :
       Stored(r) /\ StaleRefreshAnswered(w, r) =>
         /\ store'.settings.user_access_token = store.settings.user_access_token
         /\ store'.settings.user_refresh_token = store.settings.user_refresh_token]_vars

\* ---- C19
\* the task is suspended in the request of refresh_user_token_if_needed
Refreshing(r) == r.pc \in {"err_refresh", "sub_refresh"}

\* a refresh succeeds when the token endpoint issues a pair: the token state holds the
\* new access token, and the new refresh token or else the one it had; the settings
\* hold the same two tokens, and so does the file
C19_Success ==
  issued' # issued =>
    /\ token_state'.access_token = issued'
    /\ token_state'.access_token # token_state.access_token
    /\ token_state'.refresh_token \in {issued', token_state.refresh_token}
    /\ store'.settings.user_access_token = token_state'.access_token
    /\ store'.settings.user_refresh_token = token_state'.refresh_token
    /\ Load(disk'.target, store).settings = store'.settings

\* a refresh that ends without a new pair changes no token, in memory or on disk, and
\* inside subscribe it raises: the subscribe call fails with the refresh's error
C19_Failure ==
  \A w \in TaskIds :
    Refreshing(wk[w]) /\ wk'[w].pc # wk[w].pc /\ issued' = issued =>
      /\ token_state' = token_state
      /\ store' = store
      /\ disk' = disk
      /\ wk[w].pc = "sub_refresh" /\ ~Done(w)' =>
           /\ wk'[w].call.out = "failed"
           /\ InHandler(wk'[w])
           /\ worker_status'.last_error = "refresh failed"

\* C19: a refresh that succeeds leaves the token state and the persisted settings with
\* the same new access token (and the new refresh token when one is returned); a refresh
\* whose request fails leaves the tokens in memory and in the settings as they were and
\* reports the failure to its caller.
C19_RefreshOutcome == [][C19_Success /\ C19_Failure]_vars

\* the refresh inside subscribe succeeded with a new refresh token: the second request
\* is posted, and token state, settings and file hold the new pair
C19_Witness ==
  \E w \in TaskIds :
    /\ wk[w].pc = "sub_retry"
    /\ wk[w].call.refreshes = 1
    /\ issued > 1
    /\ token_state = [access_token |-> issued, refresh_token |-> issued]
    /\ store.settings.user_access_token = issued
    /\ store.settings.user_refresh_token = issued
    /\ disk.target = File(Dumped(store))

\* ---- C20
\* a resolved id is never changed
C20_IdKept ==
  /\ store.settings.broadcaster_id # "" =>
       store'.settings.broadcaster_id = store.settings.broadcaster_id
  /\ store.settings.moderator_user_id # "" =>
       store'.settings.moderator_user_id = store.settings.moderator_user_id

\* a worker that reaches the resolver with the id resolved makes no lookup for it
C20_NoLookupWhenCached ==
  \A w \in TaskIds :
    /\ wk[w].pc # "lookup_b" /\ wk'[w].pc = "lookup_b" =>
         store.settings.broadcaster_id = ""
    /\ wk[w].pc # "lookup_m" /\ wk'[w].pc = "lookup_m" =>
         store.settings.moderator_user_id = ""

\* one lookup per call: its answer ends the call, and a successful one has stored the
\* id in the settings and in the file
C20_LookupOnce ==
  \A w \in TaskIds :
    /\ wk[w].pc = "lookup_b" /\ wk'[w].pc \in {"lookup_m", "connecting"} =>
         /\ store'.settings.broadcaster_id = IdOf(wk[w].asked)
         /\ Load(disk'.target, store).settings = store'.settings
    /\ wk[w].pc = "lookup_m" /\ wk'[w].pc = "connecting" =>
         /\ store'.settings.moderator_user_id # ""
         /\ Load(disk'.target, store).settings = store'.settings

\* C20: once broadcaster_id (moderator_user_id) is non-empty, ensure_broadcaster_id
\* (ensure_moderator_user_id) returns it without a lookup and no action of the worker
\* changes it; while it is empty, a call makes one lookup and on success caches and
\* persists the result.
C20_IdsCached == [][C20_IdKept /\ C20_NoLookupWhenCached /\ C20_LookupOnce]_vars

\* ---- C21
\* C21: stats.total_bits never decreases: in every step its new value is greater than
\* or equal to its old value.
C21_BitsMonotone == [][store'.stats.total_bits >= store.stats.total_bits]_vars

\* ---- C22
\* the clients a pass has still to visit were all attached before the pass started,
\* each once; a client received only messages published after it was attached
C22_SnapshotOnly ==
  /\ \A w \in TaskIds :
       wk[w].pc = "bcast" =>
         /\ \A o \in Elements(wk[w].todo) : obs[o].joined < wk[w].msg.n
         /\ Cardinality(Elements(wk[w].todo)) = Len(wk[w].todo)
  /\ \A o \in Observers : \A n \in Numbers(o) : obs[o].joined < n

\* a pass starts with the set as it is then; a step of a client's handler (attach,
\* detach) leaves every pass as it is; a send that is over has delivered the message to
\* the client it was for if that client's socket is open, to nobody else, and the pass
\* goes on with the clients left
C22_PassStep ==
  /\ \A w \in TaskIds :
       wk'[w].pc = "bcast" /\ wk'[w].msg # wk[w].msg =>
         /\ Elements(wk'[w].todo) = ws_clients'
         /\ wk'[w].stale = <<>>
  /\ (\E o \in Observers : obs'[o].pc # obs[o].pc) => wk' = wk
  /\ \A w \in TaskIds :
       wk[w].pc = "bcast" /\ wk'[w].pc # "done" /\
       [wk'[w] EXCEPT !.cancel = FALSE] # [wk[w] EXCEPT !.cancel = FALSE] =>
         LET o == Head(wk[w].todo)
         IN /\ obs'[o].inbox = IF obs[o].open THEN Append(obs[o].inbox, wk[w].msg)
                                               ELSE obs[o].inbox
            /\ \A x \in Observers \ {o} : obs'[x] = obs[x]
            /\ Len(wk[w].todo) > 1 =>
                 /\ wk'[w].todo = Tail(wk[w].todo)
                 /\ wk'[w].msg = wk[w].msg
                 /\ ws_clients' = ws_clients
            /\ ws_clients' \subseteq ws_clients
            /\ \A x \in ws_clients \ ws_clients' : ~obs[x].open

\* C22: attach and detach that interleave with a publish pass never make it fail or
\* skip a client attached at its start: the pass sends to exactly the clients of the set
\* at its start, a client attached during the pass does not get that message, and a
\* client detached during the pass is at worst discarded again.
C22_PassUnderChurn == []C22_SnapshotOnly /\ [][C22_PassStep]_vars

\* the second client attached while the first message was being sent: it has the
\* second message only, the first client has both; the first client then went away
\* and was discarded by its own handler
C22_Witness ==
  /\ Numbers("o1") = {1, 2}
  /\ Numbers("o2") = {2}
  /\ obs["o2"].joined = 1
  /\ obs["o1"].pc = "closed"
  /\ ws_clients = {"o2"}

\* ---- C23
\* C23: whenever a Streaming session ends because the transport closes, an orderly close
\* included, the worker goes through the failure handler and the backoff sleep before it
\* opens the next connection: a step that ends a Streaming session without cancellation
\* leaves the worker in the handler's refresh or in the sleep.
C23_CloseBacksOff ==
  [][\A w \in TaskIds :
       wk[w].pc = "stream" /\ wk'[w].conn < wk[w].conn /\ wk'[w].pc # "done" =>
         wk'[w].pc \in {"err_refresh", "sleep"}]_vars

\* ---- C24
Subscribing(r) == r.pc \in {"sub_post", "sub_refresh", "sub_retry"}

\* while the request for the k-th kind is open the flags of the kinds before it are
\* true and the others false; in Streaming all three are true
C24_FlagsInOrder ==
  \A w \in TaskIds :
    /\ Subscribing(wk[w]) =>
         \A i \in 1..Len(SUB_TYPES) : worker_status.subs[SUB_TYPES[i]] = (i < wk[w].sub)
    /\ wk[w].pc \in {"stream", "bcast"} =>
         \A i \in 1..Len(SUB_TYPES) : worker_status.subs[SUB_TYPES[i]]

\* a flag becomes true in the step that receives the 2xx answer for its kind; a
\* session that leaves its subscribe calls otherwise is cancelled or is closed by the
\* failure handler, flags untouched; frames are read in Streaming only
C24_SubscribeStep ==
  /\ \A i \in 1..Len(SUB_TYPES) :
       ~worker_status.subs[SUB_TYPES[i]] /\ worker_status'.subs[SUB_TYPES[i]] =>
         \E w \in TaskIds :
           /\ wk[w].pc \in {"sub_post", "sub_retry"}
           /\ wk[w].sub = i
           /\ IF i < Len(SUB_TYPES)
                THEN wk'[w].pc = "sub_post" /\ wk'[w].sub = i + 1
                ELSE wk'[w].pc = "stream"
  /\ \A w \in TaskIds :
       Subscribing(wk[w]) /\ ~Subscribing(wk'[w]) /\ wk'[w].pc \notin {"stream", "done"} =>
         /\ InHandler(wk'[w])
         /\ wk'[w].conn = 0
         /\ wk'[w].call.out = "failed"
         /\ worker_status'.subs = worker_status.subs
         /\ UNCHANGED <<readLog, noise, store, pubLog>>
  /\ readLog' # readLog =>
       \E w \in TaskIds : wk[w].pc = "stream" /\ wk[w].conn = 1

\* C24: in each session the subscriptions are requested in the order follow,
\* subscribe, cheer; each flag is set only after the request for its kind succeeded;
\* after the first failing request no further request is made in the session, no event
\* frame is read from it and it is closed.
C24_SubscribeInOrder == []C24_FlagsInOrder /\ [][C24_SubscribeStep]_vars

\* the request for subscribe failed after the one for follow had succeeded: the worker
\* is in the handler with the connection closed, and cheer was never requested
C24_Witness ==
  \E w \in TaskIds :
    /\ InHandler(wk[w])
    /\ wk[w].call.out = "failed"
    /\ wk[w].conn = 0
    /\ worker_status.subs = [follow |-> TRUE, subscribe |-> FALSE, cheer |-> FALSE]

\* ---- C25
NoFlags == [follow |-> FALSE, subscribe |-> FALSE, cheer |-> FALSE]

\* the step that receives a welcome with a session id records the id, leaves all three
\* flags false and opens the first subscription request; the session id is written by
\* no other step; a flag is set only by a worker whose session is the recorded one, in
\* a step that leaves the recorded id as it is
C25_WelcomeStep ==
  /\ \A w \in TaskIds :
       wk[w].pc = "welcome" /\ Subscribing(wk'[w]) =>
         /\ worker_status'.session_id \in SessionIds
         /\ worker_status'.subs = NoFlags
         /\ wk'[w].pc = "sub_post" /\ wk'[w].sub = 1
         /\ wk'[w].call.posts = 1 /\ wk'[w].call.out = "open"
  /\ worker_status'.session_id # worker_status.session_id =>
       \E w \in TaskIds : wk[w].pc = "welcome" /\ Subscribing(wk'[w])
  /\ (\E k \in DOMAIN NoFlags : ~worker_status.subs[k] /\ worker_status'.subs[k]) =>
       /\ worker_status'.session_id = worker_status.session_id
       /\ \E w \in TaskIds : Subscribing(wk[w]) /\ wk[w].conn = 1

\* C25: on a welcome with a session id the status session_id is that id and the three
\* flags are false before the first subscription request of the session; a flag of an
\* earlier session is true under a later session's id only if the later session's own
\* request for that kind succeeded.
C25_FlagsPerSession == [][C25_WelcomeStep]_vars

\* an earlier session streamed (it read a frame, so its three flags were true); the
\* next session has its welcome and its first request open, all flags false again
C25_Witness ==
  \E w \in TaskIds :
    /\ Len(readLog) > 0
    /\ wk[w].pc = "sub_post" /\ wk[w].sub = 1
    /\ worker_status.session_id \in SessionIds
    /\ worker_status.subs = NoFlags

\* ---- C26
AfterWelcome(r) == Subscribing(r) \/ r.pc \in {"stream", "bcast"}

\* connected = true is shown only while a worker is in Streaming with its connection
\* open, and then with the three flags true, no error, the minimum backoff and a
\* session id
C26_ConnectedMeans ==
  worker_status.connected =>
    /\ \E w \in TaskIds : wk[w].pc \in {"stream", "bcast"} /\ wk[w].conn = 1
    /\ worker_status.subs = [follow |-> TRUE, subscribe |-> TRUE, cheer |-> TRUE]
    /\ worker_status.last_error = ""
    /\ worker_status.backoff_s = BACKOFF_MIN
    /\ worker_status.session_id \in SessionIds

\* connected becomes true in the step that receives the 2xx answer for the third
\* subscription and enters Streaming; from its welcome on, a session leaves the recorded
\* session id as it is
C26_ConnectStep ==
  /\ ~worker_status.connected /\ worker_status'.connected =>
       \E w \in TaskIds :
         /\ wk[w].pc \in {"sub_post", "sub_retry"} /\ wk[w].sub = Len(SUB_TYPES)
         /\ wk'[w].pc = "stream"
  /\ \A w \in TaskIds :
       AfterWelcome(wk[w]) /\ AfterWelcome(wk'[w]) =>
         worker_status'.session_id = worker_status.session_id

\* C26: whenever the worker is suspended and the status shows connected = true, the
\* three flags are true, last_error is empty, backoff_s is 1 and session_id is the id
\* of the session whose connection is open; connected becomes true only on the step
\* from Subscribing to Streaming.
C26_ConnectedStatus == []C26_ConnectedMeans /\ [][C26_ConnectStep]_vars

\* a session that followed a failed one is streaming and has read a frame: the error
\* and the doubled backoff of the failure are gone from the status
C26_Witness ==
  \E w \in TaskIds :
    /\ worker_status.connected
    /\ wk[w].pc = "stream"
    /\ faults > 0
    /\ Len(readLog) > 0

\* ---- C27
\* C27 (as stated): after the 3 s pause the worker awaits a welcome again.
C27_BackToWelcome ==
  [][\A w \in TaskIds :
       wk[w].pc = "welcome_pause" /\ wk'[w].pc \notin {"welcome_pause", "done"} =>
         wk'[w].pc = "welcome"]_vars

\* a first frame without a session starts the pause and changes nothing else; when the
\* pause is over the connection is closed and the loop starts again (ids, connect) with
\* the backoff, the failure count, the error text and the tokens as they were, and with
\* no request to the token endpoint
C27_PauseStep ==
  \A w \in TaskIds :
    /\ wk[w].pc = "welcome" /\ wk'[w].pc = "welcome_pause" =>
         /\ worker_status' = worker_status
         /\ wk'[w] = [wk[w] EXCEPT !.pc = "welcome_pause"]
         /\ UNCHANGED <<token_state, issued, store, disk>>
    /\ wk[w].pc = "welcome_pause" /\ wk'[w].pc \notin {"welcome_pause", "done"} =>
         /\ wk'[w].pc \in {"lookup_b", "lookup_m", "connecting"}
         /\ wk'[w].conn = 0
         /\ wk'[w].backoff = wk[w].backoff
         /\ wk'[w].fails = wk[w].fails
         /\ wk'[w].sent = NoToken
         /\ worker_status' = [worker_status EXCEPT !.backoff_s = wk[w].backoff,
                                                    !.connected = FALSE]
         /\ UNCHANGED <<token_state, issued, store, disk>>

\* C27 (amended): a first frame that parses but carries no session makes the worker
\* sleep 3 s, close the connection and start the loop again (a new connection, then its
\* welcome) without the failure handler: backoff not doubled, last_error not written, no
\* token refresh; nothing counts the repetitions.
C27_LenientPause == [][C27_PauseStep]_vars

\* the second welcome in a row without a session: no subscribe call was ever made, no
\* error was ever recorded, the backoff is still the minimum
C27_Witness ==
  \E w \in TaskIds :
    /\ wk[w].pc = "welcome_pause"
    /\ faults = 2
    /\ wk[w].call.out = "none"
    /\ wk[w].fails = 0
    /\ wk[w].backoff = BACKOFF_MIN
    /\ worker_status.last_error = ""

\* ---- C28
\* the frames of the claim: a mapping without a subscription tag, without an event
\* payload, or with a subscription type that has no branch
Ignored(frame) ==
  /\ frame.t = "dict"
  /\ \/ ~TruthyJ(FrameSub(frame))
     \/ ~TruthyJ(FrameEvent(frame))
     \/ FrameType(frame) \notin
          {JStr("channel.follow"), JStr("channel.subscribe"), JStr("channel.cheer")}

\* the frames sent that are not event frames are those of the claim and the one that
\* does not parse; the worker has no branch for any of them
C28_NoBranch ==
  /\ \A frame \in lim.sends \ EventFrames : Ignored(frame) \/ frame = Unparseable
  /\ \A frame \in lim.sends : Ignored(frame) => FrameKind(frame) = ""

\* reading such a frame in Streaming leaves the latest slots, the recent lists, the
\* totals, the file, the status, the clients and what was published as they were, and
\* the worker in Streaming
C28_IgnoredStep ==
  noise' # noise =>
    /\ \E w \in TaskIds : wk[w].pc = "stream"
    /\ UNCHANGED <<wk, worker_status, store, disk, pubLog, ws_clients, obs, token_state>>

\* C28: a frame read in Streaming that lacks a subscription tag or an event payload, or
\* whose subscription type is not channel.follow, channel.subscribe or channel.cheer,
\* changes nothing: latest, recent, total_bits, status and clients are unchanged,
\* nothing is saved or published, and the session stays in Streaming.
C28_IgnoredFrames == []C28_NoBranch /\ [][C28_IgnoredStep]_vars

\* such a frame was read after an event had been dispatched: the worker is streaming
\* and the file holds what the event left
C28_Witness ==
  \E w \in TaskIds :
    /\ noise = 1
    /\ Len(readLog) = 1
    /\ wk[w].pc = "stream"
    /\ worker_status.connected
    /\ disk = Saved(store)

\* ---- C29
\* C29: an unparseable inbound frame always takes the backoff path, as the first frame
\* of a connection or as a later frame read in Streaming: the step that reads it closes
\* the session, records last_error and leaves the worker in the failure handler.
C29_MalformedBacksOff ==
  [][noise' # noise /\ lim.sends \ EventFrames = {Unparseable} =>
       \E w \in TaskIds :
         /\ wk[w].pc = "stream"
         /\ InHandler(wk'[w])
         /\ wk'[w].conn = 0
         /\ ~worker_status'.connected
         /\ worker_status'.last_error # ""]_vars

\* ---- C30
\* C30: with no refresh token held, a refresh posts nothing to the token endpoint and
\* changes no token, and a subscription request answered with 401 fails instead of
\* being sent again with the unrefreshed token: the step that receives the 401 leaves
\* the tokens as they were and the worker in the failure handler, one request made.
C30_NoResendUnrefreshed ==
  [][\A w \in TaskIds :
       /\ wk[w].pc = "sub_post"
       /\ wk'[w].call.first = "401"
       /\ token_state.refresh_token = NoToken
       => /\ UNCHANGED <<token_state, issued, store, disk>>
          /\ wk'[w].sent = NoToken
          /\ InHandler(wk'[w])
          /\ wk'[w].call.posts = 1]_vars

\* ---- C31
ConfigurationErrors ==
  {"Set the 'Broadcaster Login' in /admin", "Broadcaster not found for login",
   "Failed to resolve user"}

\* C31: an attempt that failed because the broadcaster login is unset with no id cached,
\* or because an identity lookup found no match, is not retried while the configuration
\* stays as it is: a worker that sleeps with such an error in last_error makes no
\* further lookup and opens no connection when the sleep is over.
C31_NotRetried ==
  [][\A w \in TaskIds :
       /\ wk[w].pc = "sleep"
       /\ worker_status.last_error \in ConfigurationErrors
       /\ store'.settings = store.settings
       => wk'[w].pc \notin {"lookup_b", "lookup_m", "connecting"}]_vars

\* ---- C32
\* the store the file holds
OnDisk == Load(disk.target, InitialStore(Configured, 0))

\* the recent list and the latest slot of a published kind
RecentOf(st, kind) ==
  CASE kind = "follow" -> st.recent.follows
    [] kind = "sub" -> st.recent.subs
    [] OTHER -> st.recent.cheers

LatestOf(st, kind) ==
  CASE kind = "follow" -> st.latest.follow
    [] kind = "sub" -> st.latest.sub
    [] OTHER -> st.latest.bits

\* every message published so far is of an event the file holds: its data is in the
\* recent list of its kind, and the data of the last one is in the latest slot
C32_PublishedIsSaved ==
  /\ Parses(disk.target)
  /\ \A i \in DOMAIN pubLog :
       /\ pubLog[i].data \in Elements(RecentOf(OnDisk, pubLog[i].kind))
       /\ i = Len(pubLog) => LatestOf(OnDisk, pubLog[i].kind) = pubLog[i].data
  /\ \A o \in Observers : \A n \in Numbers(o) : n \in DOMAIN pubLog

\* the step that reads an event frame updates the store, saves it and starts the first
\* publish; the sends of a pass, to an open or to a closed socket, leave the store and
\* the file as they are
C32_DispatchStep ==
  /\ readLog' # readLog =>
       LET frame == readLog'[Len(readLog')]
       IN /\ store' = Dispatch(store, frame)
          /\ Load(disk'.target, store) = store'
          /\ Len(pubLog') > Len(pubLog)
          /\ \A o \in Observers : obs'[o] = obs[o]
  /\ \A w \in TaskIds :
       wk[w].pc = "bcast" /\ wk'[w] # wk[w] => UNCHANGED <<store, disk>>

\* C32: for each recognized event the worker updates the store (latest slot, recent
\* list, and the bits counter for a cheer) and saves it before the first publish of the
\* event: no client receives a latest_update or an alert of an event that is not in the
\* saved store, and a failing client or publish never undoes the store update.
C32_SaveBeforePublish == []C32_PublishedIsSaved /\ [][C32_DispatchStep]_vars

\* both messages of an event were published; one client got them, the other one's
\* socket had closed and it was discarded; the file holds the event
C32_Witness ==
  /\ Len(pubLog) = 2
  /\ Numbers("o2") = {1, 2}
  /\ obs["o1"].pc # "idle" /\ ~obs["o1"].open /\ "o1" \notin ws_clients
  /\ Numbers("o1") = {}
  /\ OnDisk = store
  /\ store.latest # NoLatest

\* ---- C33
\* the version, the transport and the condition the claim fixes for the n-th request
ExpectedVersions == <<"2", "1", "1">>

\* every request of an open subscribe call is of the type of its turn, with the version
\* fixed for it, the transport websocket with the recorded session id, and the
\* condition of its kind made of the resolved ids
C33_RequestBody ==
  \A w \in TaskIds :
    Subscribing(wk[w]) =>
      LET body == wk[w].call.body
          n == wk[w].sub
      IN /\ body.type = SUB_CALLS[n]
         /\ body.version = ExpectedVersions[n]
         /\ body.transport = [method |-> "websocket",
                              session_id |-> worker_status.session_id]
         /\ body.condition.broadcaster_user_id = store.settings.broadcaster_id
         /\ store.settings.broadcaster_id # ""
         /\ IF n = 1
              THEN /\ DOMAIN body.condition = {"broadcaster_user_id", "moderator_user_id"}
                   /\ body.condition.moderator_user_id = store.settings.moderator_user_id
                   /\ store.settings.moderator_user_id # ""
              ELSE DOMAIN body.condition = {"broadcaster_user_id"}

\* the first request of a session carries the id of the welcome received in that step;
\* the retried request of a call has the body of the first
C33_RequestStep ==
  \A w \in TaskIds :
    /\ wk[w].pc = "welcome" /\ wk'[w].pc = "sub_post" =>
         wk'[w].call.body.transport.session_id = worker_status'.session_id
    /\ Subscribing(wk[w]) /\ Subscribing(wk'[w]) /\ wk'[w].sub = wk[w].sub =>
         wk'[w].call.body = wk[w].call.body

\* C33: every subscription request carries the version fixed for its kind (2 for
\* follow, 1 for subscribe, 1 for cheer), the transport method websocket and the id of
\* the session whose welcome was just received; the follow request's condition holds
\* the broadcaster id and the moderator id, the other two the broadcaster id only.
C33_SubscribeRequests == []C33_RequestBody /\ [][C33_RequestStep]_vars

\* the cheer request is being retried after a 401; the follow and the subscribe
\* subscriptions of the session are created
C33_Witness ==
  \E w \in TaskIds :
    /\ wk[w].pc = "sub_retry"
    /\ wk[w].sub = 3
    /\ wk[w].call.body.type = "channel.cheer"
    /\ worker_status.subs = [follow |-> TRUE, subscribe |-> TRUE, cheer |-> FALSE]

\* ---- C34
\* C34: in every reachable state of the status, subs.cheer implies subs.subscribe and
\* subs.subscribe implies subs.follow.
C34_FlagChain ==
  /\ worker_status.subs.cheer => worker_status.subs.subscribe
  /\ worker_status.subs.subscribe => worker_status.subs.follow

\* ---- C35
\* a step that changes a latest slot, a recent list or total_bits, or that publishes
\* a message, is taken by a worker in its frame loop, its connection open, the status
\* showing connected = true and the three subscriptions of the session
C35_DispatchStep ==
  \/ store'.latest # store.latest
  \/ store'.recent # store.recent
  \/ store'.stats # store.stats
  \/ pubLog' # pubLog
  => /\ worker_status.connected
     /\ worker_status.subs = [follow |-> TRUE, subscribe |-> TRUE, cheer |-> TRUE]
     /\ \E w \in TaskIds :
          /\ wk[w].pc \in {"stream", "bcast"}
          /\ wk[w].conn = 1
          /\ wk'[w].pc \in {"stream", "bcast"}

\* C35: the worker changes the latest slots, the recent lists or total_bits, and
\* publishes latest_update or alert messages, only in a session in which all three
\* subscriptions succeeded, that is while the status it wrote last shows
\* connected = true; nothing is dispatched before that.
C35_DispatchOnlyStreaming == [][C35_DispatchStep]_vars

\* an event was dispatched and is being published in a session that followed a
\* failure
C35_Witness ==
  \E w \in TaskIds :
    /\ wk[w].pc = "bcast"
    /\ faults > 0
    /\ Len(readLog) = 1
    /\ store.stats.total_bits > 0
    /\ worker_status.connected

\* ---- C36
BeforeConnect == {"start", "lookup_b", "lookup_m", "err_refresh", "sleep"}

\* a worker that opens or holds a connection has a token and both ids; a worker that is
\* resolving an id holds no connection
C36_ReadyToConnect ==
  \A w \in TaskIds :
    /\ wk[w].pc \in {"connecting"} \cup {pc \in Awaits : InSession([pc |-> pc])} =>
         /\ token_state.access_token # NoToken
         /\ store.settings.broadcaster_id # ""
         /\ store.settings.moderator_user_id # ""
    /\ wk[w].pc \in BeforeConnect => wk[w].conn = 0

\* an attempt that fails on the token check or in a lookup goes to the failure handler
\* with no connection opened and no subscribe call made; the connection is opened in
\* a step that finds the token and both ids
C36_AttemptStep ==
  \A w \in TaskIds :
    /\ wk[w].pc \in {"start", "sleep", "lookup_b", "lookup_m"} /\ InHandler(wk'[w]) /\
       [wk'[w] EXCEPT !.cancel = FALSE] # [wk[w] EXCEPT !.cancel = FALSE] =>
         /\ wk'[w].conn = 0
         /\ wk'[w].call = wk[w].call
         /\ \/ token_state.access_token = NoToken
            \/ store'.settings.broadcaster_id = ""
            \/ store'.settings.moderator_user_id = ""
    /\ wk[w].pc # "connecting" /\ wk'[w].pc = "connecting" =>
         /\ token_state'.access_token # NoToken
         /\ store'.settings.broadcaster_id # ""
         /\ store'.settings.moderator_user_id # ""
         /\ wk'[w].conn = 0
    /\ wk'[w].conn > wk[w].conn => wk[w].pc = "connecting"

\* C36: in every attempt the worker checks that the access token is not empty and
\* resolves the broadcaster id and the moderator id before it opens the connection: in
\* an attempt where the token is empty or a resolution fails, no connection is opened
\* and no subscription request is made.
C36_ResolveBeforeConnect == []C36_ReadyToConnect /\ [][C36_AttemptStep]_vars

\* the broadcaster id was resolved in this run and the moderator lookup failed: the
\* worker is in the handler without ever having opened a connection or subscribed
C36_Witness ==
  \E w \in TaskIds :
    /\ InHandler(wk[w])
    /\ worker_status.last_error = "Failed to resolve user"
    /\ store.settings.broadcaster_id # ""
    /\ store.settings.moderator_user_id = ""
    /\ wk[w].conn = 0
    /\ wk[w].call = NoCall

\* ---- C37
\* message i is the last one of its kind among the first k published
LastOfKind(i, k) ==
  \A j \in (i + 1)..k : pubLog[j].kind # pubLog[i].kind

\* for a client that is attached with an open socket, every latest_update published is
\* accounted for: one published before the attach is in the snapshot of its bootstrap
\* message (the last of its kind), one published after it was delivered or its pass is
\* not over
C37_NoGap ==
  \A o \in Observers :
    Attached(o) /\ obs[o].open =>
      \A i \in DOMAIN pubLog :
        pubLog[i].op = "latest_update" =>
          IF i <= obs[o].joined
            THEN LastOfKind(i, obs[o].joined) =>
                   LatestOf([latest |-> obs[o].boot.data], pubLog[i].kind) = pubLog[i].data
            ELSE i \in Numbers(o) \/ Unfinished(i)

\* the handler takes the snapshot and adds the client in one step, in which the worker
\* does nothing: the snapshot is the store's latest of that moment and everything
\* published until then is before the attach
C37_AttachStep ==
  \A o \in Observers :
    obs[o].pc = "accept" /\ obs'[o].pc = "bootstrap" =>
      /\ obs'[o].boot = [op |-> "bootstrap", kind |-> "", data |-> store.latest, n |-> 0]
      /\ obs'[o].joined = Len(pubLog)
      /\ o \in ws_clients'
      /\ UNCHANGED <<store, pubLog, wk>>

\* C37: for a client that attaches at any moment and stays attached no event falls into
\* a gap: every event stored before the attach is in the latest snapshot of its
\* bootstrap message, and every event whose publish starts after the attach is
\* delivered to it as a latest_update, whatever the interleaving of the attach handler
\* with the worker's dispatch.
C37_NoEventLost == []C37_NoGap /\ [][C37_AttachStep]_vars

\* the second client attached while the latest_update of the event was being sent to
\* the first: its bootstrap holds the event and it got the alert, not the latest_update;
\* the first client, attached before the event, got both messages after an empty
\* snapshot
C37_Witness ==
  /\ obs["o2"].joined = 1
  /\ obs["o2"].boot.data # NoLatest
  /\ obs["o2"].pc = "receive" /\ obs["o2"].open
  /\ Numbers("o2") = {2}
  /\ obs["o1"].boot.data = NoLatest
  /\ obs["o1"].pc = "receive" /\ obs["o1"].open
  /\ Numbers("o1") = {1, 2}

\* ---- C38
\* a callback that got past the test of its state
Admitted(r) == req[r].pc \notin {"idle", "rejected"}

\* every admitted callback came with a state that oauth_start generated, that is no
\* longer pending and that no other admitted callback came with; a rejected callback
\* obtained no token and cancelled or created no task
C38_StateUsedOnce ==
  \A r \in DOMAIN req :
    /\ Admitted(r) =>
         /\ req[r].state \in 1..minted
         /\ req[r].state \notin pending_oauth_states
         /\ \A r2 \in DOMAIN req \ {r} : Admitted(r2) => req[r2].state # req[r].state
    /\ req[r].pc = "rejected" => req[r].got = NoToken /\ req[r].task = NoTask

\* a callback is admitted with a pending state, which it discards in that step; the
\* step that rejects a callback changes no credential, no task and no pending state; a
\* token is obtained, and the worker restarted, by an admitted callback only
C38_CallbackStep ==
  \A r \in DOMAIN req :
    /\ req[r].pc = "idle" /\ req'[r].pc = "cb_post" =>
         /\ req'[r].state \in pending_oauth_states
         /\ pending_oauth_states' = pending_oauth_states \ {req'[r].state}
    /\ req[r].pc = "idle" /\ req'[r].pc = "rejected" =>
         UNCHANGED <<token_state, store, disk, issued, wk, eventsub_task,
                     pending_oauth_states>>
    /\ req'[r].got # req[r].got \/ req'[r].task # req[r].task => Admitted(r)
    /\ req[r].pc = "idle" /\ req'[r].pc # "idle" => req'[r].pc \in {"cb_post", "rejected"}

\* C38: the OAuth callback exchanges a code and restarts the worker only for a state
\* value that oauth_start issued and that no earlier accepted callback has used: a
\* callback with a missing, unknown or already consumed state is rejected with no
\* token request, no change to the stored credentials and no worker restart.
C38_StateChecked == []C38_StateUsedOnce /\ [][C38_CallbackStep]_vars

\* one callback came with the only state generated, obtained a token pair and
\* restarted the worker; a second one with the same state, a third with a state never
\* generated, were rejected
C38_Witness ==
  /\ minted = 1
  /\ req["cb"].pc = "done" /\ req["cb"].state = 1 /\ req["cb"].got # NoToken
  /\ req["r1"].pc = "rejected" /\ req["r1"].state = 1
  /\ req["r2"].pc = "rejected" /\ req["r2"].state = Forged
  /\ store.settings.user_access_token = req["cb"].got

\* ---- C39
\* C39: whenever a single worker is suspended, the status field backoff_s equals that
\* worker's current backoff value, which is always one of 1, 2, 4, 8, 16, 30; before
\* any worker has run backoff_s is 0, and backoff_s never exceeds 30.
C39_StatusBackoff ==
  /\ Cardinality(Running) <= 1 =>
       \A w \in TaskIds :
         wk[w].pc \in Awaits =>
           /\ worker_status.backoff_s = wk[w].backoff
           /\ wk[w].backoff \in Elements(Delays)
  /\ (\A w \in TaskIds : wk[w].pc \in {"none", "start"}) => worker_status.backoff_s = 0
  /\ worker_status.backoff_s <= BACKOFF_MAX

\* after the sleep that followed its fifth failure in a row the worker opens a
\* connection with the capped backoff in the status
C39_Witness ==
  \E w \in TaskIds :
    /\ wk[w].pc = "connecting"
    /\ wk[w].fails = 5
    /\ wk[w].backoff = BACKOFF_MAX
    /\ worker_status.backoff_s = BACKOFF_MAX

====
